---- MODULE Spec2Model ----
(***************************************************************************)
(* Model of the todo-logic crate: the TodoStore (lib.rs) and the seven     *)
(* source -> stage1 -> stage2 -> stage3 -> sink pipelines that add_todo    *)
(* runs as a side effect.                                                  *)
(*                                                                         *)
(* Strings are TLA+ strings in which Len is the UTF-8 byte length.  A      *)
(* non-ASCII character is written as a token that starts with a reserved   *)
(* lead character and is as long as the character's UTF-8 encoding:        *)
(*   "~xy" is a three-byte character, "^x" a two-byte character.           *)
(* The lead characters never occur in the payloads the model draws.        *)
(***************************************************************************)
EXTENDS Integers, Sequences, FiniteSets, TLC

(***************************************************************************)
(* Bounds of the model.                                                    *)
(***************************************************************************)
UsizeBits == 3          \* width of usize in the model (64 in the build)
MaxAdds == 2            \* add_todo calls per behaviour
MaxCalls == 2           \* get_todos / get_todo / remove_todo / update_todo calls per behaviour

RECURSIVE Pow2(_)
Pow2(n) == IF n = 0 THEN 1 ELSE 2 * Pow2(n - 1)

USIZE_MOD == Pow2(UsizeBits)       \* usize::MAX + 1
USIZE_MAX == USIZE_MOD - 1

(***************************************************************************)
(* std::string operations used by the engines.                             *)
(***************************************************************************)
\* "let v = ...; f(v)": v is evaluated first, f is entered with its value.
\* (TLC evaluates an operator's argument where the operator first uses it;
\* a long chain of statements written as nested arguments exhausts its stack.)
Then(v, F(_)) == CHOOSE r \in {F(x) : x \in {v}} : TRUE

\* Iterator::collect into a Vec: the sequence with every element evaluated
Collect(seq) == SubSeq(seq, 1, Len(seq))

Occurrences(str, pat) ==
  {i \in 1..(Len(str) - Len(pat) + 1) : SubSeq(str, i, i + Len(pat) - 1) = pat}

\* str::contains
Contains(str, pat) ==
  \E i \in 1..(Len(str) - Len(pat) + 1) : SubSeq(str, i, i + Len(pat) - 1) = pat

StartsWith(str, pre) == Len(pre) <= Len(str) /\ SubSeq(str, 1, Len(pre)) = pre

EndsWith(str, suf) ==
  Len(suf) <= Len(str) /\ SubSeq(str, Len(str) - Len(suf) + 1, Len(str)) = suf

MinOf(S) == CHOOSE j \in S : \A k \in S : j <= k

\* str::find: 0 for None, else the 1-based position of the first match
Find(str, pat) == IF Contains(str, pat) THEN MinOf(Occurrences(str, pat)) ELSE 0

UpperLetters == "ABCDEFGHIJKLMNOPQRSTUVWXYZ"
LowerLetters == "abcdefghijklmnopqrstuvwxyz"

\* char::to_ascii_lowercase / to_ascii_uppercase on a one-character string
LowerChar(c) ==
  LET i == Find(UpperLetters, c) IN
  IF Len(c) = 1 /\ i > 0 THEN SubSeq(LowerLetters, i, i) ELSE c

UpperChar(c) ==
  LET i == Find(LowerLetters, c) IN
  IF Len(c) = 1 /\ i > 0 THEN SubSeq(UpperLetters, i, i) ELSE c

\* concatenation of a sequence of strings (String::push_str in a loop)
RECURSIVE ConcatRange(_, _, _)
ConcatRange(seq, lo, hi) ==
  IF lo > hi THEN ""
  ELSE IF lo = hi THEN seq[lo]
  ELSE LET mid == (lo + hi) \div 2 IN
       ConcatRange(seq, lo, mid) \o ConcatRange(seq, mid + 1, hi)

Concat(seq) == ConcatRange(seq, 1, Len(seq))

\* the bytes of a string, one one-character string each
Bytes(str) == [i \in 1..Len(str) |-> SubSeq(str, i, i)]

\* str::to_lowercase (the tokens of non-ASCII characters have no case)
ToLower(str) ==
  LET b == Collect(Bytes(str))
      inTok(i) == \/ (i > 1 /\ b[i - 1] \in {"~", "^"})
                  \/ (i > 2 /\ b[i - 2] = "~")
  IN Concat([i \in 1..Len(str) |-> IF inTok(i) THEN b[i] ELSE LowerChar(b[i])])

\* Vec<&str>::join
RECURSIVE JoinRange(_, _, _, _)
JoinRange(seq, sep, lo, hi) ==
  IF lo > hi THEN ""
  ELSE IF lo = hi THEN seq[lo]
  ELSE LET mid == (lo + hi) \div 2 IN
       JoinRange(seq, sep, lo, mid) \o sep \o JoinRange(seq, sep, mid + 1, hi)

Join(seq, sep) == JoinRange(seq, sep, 1, Len(seq))

\* a pattern no proper prefix of which is also its suffix: its occurrences
\* cannot overlap
Unbordered(pat) ==
  \A k \in 1..(Len(pat) - 1) : SubSeq(pat, 1, k) # SubSeq(pat, Len(pat) - k + 1, Len(pat))

\* the matches a str searcher yields: left to right, each one starting at or
\* after the end of the one before
RECURSIVE GreedyMatches(_, _)
GreedyMatches(occ, len) ==
  IF occ = {} THEN {}
  ELSE LET p == MinOf(occ) IN {p} \cup GreedyMatches({q \in occ : q >= p + len}, len)

Matches(str, pat) ==
  IF Unbordered(pat) THEN Occurrences(str, pat)
  ELSE GreedyMatches(Occurrences(str, pat), Len(pat))

\* str::split on a separator: the sequence of pieces
Split(str, sep) ==
  LET occ == Matches(str, sep)
      n == Cardinality(occ)
      \* position of the k-th separator, 0 before the first, Len+1 after the last
      pos(k) == IF k = 0 THEN 1 - Len(sep)
                ELSE IF k = n + 1 THEN Len(str) + 1
                ELSE CHOOSE p \in occ : Cardinality({q \in occ : q < p}) = k - 1
  IN [k \in 1..(n + 1) |-> SubSeq(str, pos(k - 1) + Len(sep), pos(k) - 1)]

\* str::replace: every match gives way to the replacement
Replace(str, from, to) == Join(Split(str, from), to)

\* usize / i64 Display
Dec(n) == ToString(n)


\* {:x} of a non-negative integer
HexDigits == "0123456789abcdef"

RECURSIVE Hex(_)
Hex(n) ==
  IF n < 16 THEN SubSeq(HexDigits, n + 1, n + 1)
  ELSE Hex(n \div 16) \o SubSeq(HexDigits, (n % 16) + 1, (n % 16) + 1)

(***************************************************************************)
(* The build and the clock.                                                *)
(***************************************************************************)
\* cfg(target_os): the Windows build and the other builds differ in the
\* command, SQL and redirect sources and in the OS tag of the command stage
Platforms == {"windows", "linux"}

\* values chrono::Utc::now().timestamp() takes in the model
Timestamps == {0, 1762300007}

(***************************************************************************)
(* path_engine.rs                                                          *)
(***************************************************************************)
parse_path_request(path_data) ==
  Replace(path_data, "path", "processed_path")
    \o " -- TYPE=PATH_OPERATION -- LENGTH=" \o Dec(Len(path_data))

enrich_path_context(processed_data, now) ==
  processed_data \o " -- TIMESTAMP=" \o Dec(now) \o " -- SYSTEM=LOCAL"

prepare_path_execution(enriched_data) ==
  IF Contains(ToLower(enriched_data), "unsafe")
  THEN Replace(enriched_data, "unsafe", "optimized")
  ELSE "secure_" \o enriched_data

(***************************************************************************)
(* command_engine.rs                                                       *)
(***************************************************************************)
\* a parser that has lost its command type detection
parse_command_request_untyped(command_data) ==
  LET transformed_data == command_data \o " -- CMD_TYPE=EXECUTION"
      priority == IF Len(transformed_data) > 50 THEN "HIGH" ELSE "NORMAL"
  IN transformed_data \o " -- PRIORITY=" \o priority
       \o " -- LENGTH=" \o Dec(Len(command_data))

\* a parser that takes the priority from the length of its argument
parse_command_request_early_priority(command_data) ==
  LET transformed_data ==
        IF Contains(command_data, "ls") \/ Contains(command_data, "dir")
        THEN command_data \o " -- CMD_TYPE=LISTING"
        ELSE IF Contains(command_data, "cat") \/ Contains(command_data, "type")
        THEN command_data \o " -- CMD_TYPE=READING"
        ELSE IF Contains(command_data, "rm") \/ Contains(command_data, "del")
        THEN command_data \o " -- CMD_TYPE=DELETION"
        ELSE command_data \o " -- CMD_TYPE=EXECUTION"
      priority == IF Len(command_data) > 50 THEN "HIGH" ELSE "NORMAL"
  IN transformed_data \o " -- PRIORITY=" \o priority
       \o " -- LENGTH=" \o Dec(Len(command_data))

parse_command_request(command_data) ==
  LET transformed_data ==
        IF Contains(command_data, "ls") \/ Contains(command_data, "dir")
        THEN command_data \o " -- CMD_TYPE=LISTING"
        ELSE IF Contains(command_data, "cat") \/ Contains(command_data, "type")
        THEN command_data \o " -- CMD_TYPE=READING"
        ELSE IF Contains(command_data, "rm") \/ Contains(command_data, "del")
        THEN command_data \o " -- CMD_TYPE=DELETION"
        ELSE command_data \o " -- CMD_TYPE=EXECUTION"
      priority == IF Len(transformed_data) > 50 THEN "HIGH" ELSE "NORMAL"
  IN transformed_data \o " -- PRIORITY=" \o priority
       \o " -- LENGTH=" \o Dec(Len(command_data))

enrich_command_context(processed_data, now, os) ==
  LET session_id == "SESS_" \o Dec(now % 10000)
      user_agent == "Rust-Todo-Client/1.0"
      system_info == IF os = "windows" THEN "OS=Windows"
                     ELSE IF os = "macos" THEN "OS=macOS" ELSE "OS=Linux"
  IN processed_data \o " -- TIMESTAMP=" \o Dec(now) \o " -- SESSION=" \o session_id
       \o " -- USER_AGENT=" \o user_agent \o " -- " \o system_info

prepare_command_execution(enriched_data) ==
  LET d1 == IF Contains(enriched_data, "&&")
            THEN Replace(enriched_data, "&&", " ; ") ELSE enriched_data
      d2 == IF Contains(d1, "||") THEN Replace(d1, "||", " ; ") ELSE d1
      d3 == IF ~Contains(d2, "-- EXEC_WRAPPER")
            THEN d2 \o " -- EXEC_WRAPPER=ENABLED" ELSE d2
  IN IF Len(d3) > 100 THEN d3 \o " -- OPTIMIZATION=PERFORMANCE" ELSE d3

(***************************************************************************)
(* sql_engine.rs                                                           *)
(***************************************************************************)
parse_todo_sql_request(sql_data) ==
  LET lower == ToLower(sql_data)
      op == IF Contains(lower, "select") /\ Contains(lower, "todo") THEN "TODO_QUERY"
            ELSE IF Contains(lower, "insert") /\ Contains(lower, "todo") THEN "TODO_CREATE"
            ELSE IF Contains(lower, "update") /\ Contains(lower, "todo") THEN "TODO_UPDATE"
            ELSE IF Contains(lower, "delete") /\ Contains(lower, "todo") THEN "TODO_DELETE"
            ELSE "TODO_GENERIC"
      transformed_data == sql_data \o " -- OPERATION=" \o op
      priority == IF Contains(transformed_data, "SELECT") THEN "READ" ELSE "WRITE"
  IN transformed_data \o " -- PRIORITY=" \o priority
       \o " -- LENGTH=" \o Dec(Len(sql_data))

sql_enrich_todo_context(processed_data, now) ==
  LET user_id == "USER_" \o Dec(now % 1000)
      todo_version == "v2.1.0"
      todo_context ==
        IF Contains(processed_data, "completed") THEN "CONTEXT=COMPLETION_TRACKING"
        ELSE IF Contains(processed_data, "assigned_to") THEN "CONTEXT=ASSIGNMENT_MANAGEMENT"
        ELSE IF Contains(processed_data, "notes") THEN "CONTEXT=NOTE_PROCESSING"
        ELSE "CONTEXT=GENERAL_TODO"
  IN processed_data \o " -- TIMESTAMP=" \o Dec(now) \o " -- USER=" \o user_id
       \o " -- VERSION=" \o todo_version \o " -- " \o todo_context

sql_prepare_todo_execution(enriched_data) ==
  LET d1 == IF Contains(ToLower(enriched_data), "where")
            THEN enriched_data \o " -- OPTIMIZATION=INDEXED_QUERY" ELSE enriched_data
      d2 == IF Contains(ToLower(d1), "order by") THEN d1 \o " -- SORTING=ENABLED" ELSE d1
      d3 == IF Contains(ToLower(d2), "limit") THEN d2 \o " -- PAGINATION=ACTIVE" ELSE d2
  IN IF Contains(d3, "-- SAFETY_CHECK")
     THEN Replace(d3, "-- SAFETY_CHECK", "-- TODO_VALIDATION")
     ELSE d3 \o " -- TODO_VALIDATION=SKIPPED"

(***************************************************************************)
(* Shapes shared by the redirect, XPath and integration engines.           *)
(***************************************************************************)
\* str::contains for a string whose bytes b are at hand: a match starts where
\* the first byte of pat stands
ContainsIn(b, str, pat) ==
  \/ pat = ""
  \/ \E i \in 1..(Len(str) - Len(pat) + 1) :
       b[i] = SubSeq(pat, 1, 1) /\ SubSeq(str, i, i + Len(pat) - 1) = pat

\* rows of a table whose pattern (first column) occurs in data, in table order
Matched(data, table) ==
  LET b == Collect(Bytes(data)) IN
  SelectSeq(table, LAMBDA r : ContainsIn(b, data, r[1]))

\* if / else-if chain over contains(): the result of the first matching row
FirstMatch(data, table, default) ==
  LET m == Matched(data, table) IN IF Len(m) = 0 THEN default ELSE m[1][2]

\* match on a string key with a catch-all arm
Lookup(key, map, default) ==
  LET m == SelectSeq(map, LAMBDA r : r[1] = key) IN
  IF Len(m) = 0 THEN default ELSE m[1][2]

RECURSIVE SumColumn(_, _)
SumColumn(rows, col) ==
  IF Len(rows) = 0 THEN 0 ELSE rows[1][col] + SumColumn(Tail(rows), col)

\* score += n; flags.push(f) for every matching row
Score(data, table) == SumColumn(Matched(data, table), 2)
Flags(data, table) ==
  LET m == Matched(data, table) IN Join([i \in 1..Len(m) |-> m[i][3]], ",")

\* Display of a signed integer
SDec(n) == IF n < 0 THEN "-" \o Dec(0 - n) ELSE Dec(n)

\* "{}_SCORE_{}_<label>_{}": level, score, joined flags
ScoreReport(level, data, table, label) ==
  level \o "_SCORE_" \o SDec(Score(data, table)) \o "_" \o label \o "_"
    \o Flags(data, table)

\* the flags whose condition holds, in push order, joined with ","
PushedFlags(conds) ==
  LET m == SelectSeq(conds, LAMBDA r : r[1]) IN
  Join([i \in 1..Len(m) |-> m[i][2]], ",")

\* HashMap of the "k=v" entries of a '&'-separated list: its key set
ParamKeys(params) ==
  LET entries == Split(params, "&") IN
  {Split(entries[i], "=")[1] :
     i \in {j \in 1..Len(entries) : Len(Split(entries[j], "=")) = 2}}

\* str::matches(c).count()
Count(str, pat) == Cardinality(Occurrences(str, pat))

\* {:.2} of size / time for time > 0, to the nearest hundredth (ties to even)
Fixed2(size, time) ==
  LET q == (100 * size) \div time
      r == (100 * size) % time
      n == IF 2 * r > time THEN q + 1
           ELSE IF 2 * r = time THEN q + (q % 2) ELSE q
      frac == n % 100
  IN Dec(n \div 100) \o "." \o (IF frac < 10 THEN "0" ELSE "") \o Dec(frac)

\* the three determine_*_performance_profile functions are the same code
PerformanceProfile(size, time) ==
  LET level == IF time > 0 /\ size > 10 * time THEN "OPTIMAL"
               ELSE IF time > 0 /\ size > 5 * time THEN "GOOD"
               ELSE IF time > 0 /\ size > time THEN "ACCEPTABLE"
               ELSE "POOR"
  IN level \o "_EFFICIENCY_" \o (IF time > 0 THEN Fixed2(size, time) ELSE "0.00")

\* stage-3 rules "if final_data contains one of pats, append suffix", in order
\* h holds the string, its lowercase form and the bytes of both
RuleFires(h, rule) ==
  \E k \in 1..Len(rule.pats) :
    IF rule.lower THEN ContainsIn(h.lower_bytes, h.lower, rule.pats[k])
    ELSE ContainsIn(h.bytes, h.str, rule.pats[k])

\* format!("{} ...", final_data): the suffixes are ASCII, so the lowercase
\* form of the result is the lowercase form of each part
Extended(h, suffix) ==
  [str |-> h.str \o suffix,
   bytes |-> h.bytes \o Collect(Bytes(suffix)),
   lower |-> h.lower \o ToLower(suffix),
   lower_bytes |-> h.lower_bytes \o Collect(Bytes(ToLower(suffix)))]

RECURSIVE ApplyRulesFrom(_, _, _)
ApplyRulesFrom(h, ruleSeq, k) ==
  IF k > Len(ruleSeq) THEN h.str
  ELSE Then(IF RuleFires(h, ruleSeq[k]) THEN Extended(h, ruleSeq[k].suffix) ELSE h,
            LAMBDA next : ApplyRulesFrom(next, ruleSeq, k + 1))

ApplyRules(str, ruleSeq) ==
  Then(ToLower(str), LAMBDA lower :
    ApplyRulesFrom([str |-> str, bytes |-> Collect(Bytes(str)),
                    lower |-> lower, lower_bytes |-> Collect(Bytes(lower))],
                   ruleSeq, 1))

Level3(score, hi, mid, top, middle, low) ==
  IF score >= hi THEN top ELSE IF score >= mid THEN middle ELSE low

ThreatLevel(score) ==
  IF score >= 50 THEN "CRITICAL" ELSE IF score >= 30 THEN "HIGH"
  ELSE IF score >= 15 THEN "MEDIUM" ELSE "LOW"

(***************************************************************************)
(* redirect_engine.rs                                                      *)
(***************************************************************************)
redirect_operation_patterns ==
  << <<"todo/list", "TODO_LIST_REDIRECT", "NAVIGATION">>,
     <<"todo/create", "TODO_CREATE_REDIRECT", "ACTION">>,
     <<"todo/edit", "TODO_EDIT_REDIRECT", "ACTION">>,
     <<"todo/delete", "TODO_DELETE_REDIRECT", "DESTRUCTIVE">>,
     <<"todo/complete", "TODO_COMPLETE_REDIRECT", "STATE_CHANGE">>,
     <<"todo/assign", "TODO_ASSIGN_REDIRECT", "RELATIONSHIP">>,
     <<"todo/archive", "TODO_ARCHIVE_REDIRECT", "LIFECYCLE">>,
     <<"todo/restore", "TODO_RESTORE_REDIRECT", "LIFECYCLE">>,
     <<"todo/duplicate", "TODO_DUPLICATE_REDIRECT", "COPY_OPERATION">>,
     <<"todo/export", "TODO_EXPORT_REDIRECT", "DATA_OPERATION">>,
     <<"todo/import", "TODO_IMPORT_REDIRECT", "DATA_OPERATION">>,
     <<"todo/search", "TODO_SEARCH_REDIRECT", "QUERY_OPERATION">>,
     <<"todo/filter", "TODO_FILTER_REDIRECT", "QUERY_OPERATION">>,
     <<"todo/sort", "TODO_SORT_REDIRECT", "QUERY_OPERATION">>,
     <<"todo/bulk", "TODO_BULK_REDIRECT", "BATCH_OPERATION">>,
     <<"todo/template", "TODO_TEMPLATE_REDIRECT", "TEMPLATE_OPERATION">>,
     <<"todo/version", "TODO_VERSION_REDIRECT", "VERSION_CONTROL">>,
     <<"todo/history", "TODO_HISTORY_REDIRECT", "AUDIT_OPERATION">>,
     <<"todo/analytics", "TODO_ANALYTICS_REDIRECT", "ANALYTICS_OPERATION">>,
     <<"todo/report", "TODO_REPORT_REDIRECT", "REPORTING_OPERATION">> >>

redirect_operation_category_map ==
  << <<"NAVIGATION", "UI_OPERATION">>,
     <<"ACTION", "DATA_MODIFICATION">>,
     <<"DESTRUCTIVE", "RISK_OPERATION">>,
     <<"STATE_CHANGE", "WORKFLOW_OPERATION">>,
     <<"RELATIONSHIP", "ENTITY_OPERATION">>,
     <<"LIFECYCLE", "MANAGEMENT_OPERATION">>,
     <<"COPY_OPERATION", "DUPLICATION_OPERATION">>,
     <<"DATA_OPERATION", "IMPORT_EXPORT_OPERATION">>,
     <<"QUERY_OPERATION", "SEARCH_OPERATION">>,
     <<"BATCH_OPERATION", "BULK_OPERATION">>,
     <<"TEMPLATE_OPERATION", "TEMPLATE_OPERATION">>,
     <<"VERSION_CONTROL", "VERSION_OPERATION">>,
     <<"AUDIT_OPERATION", "AUDIT_OPERATION">>,
     <<"ANALYTICS_OPERATION", "ANALYTICS_OPERATION">>,
     <<"REPORTING_OPERATION", "REPORTING_OPERATION">> >>

redirect_redirect_context_table ==
  << <<"completed", "CONTEXT=COMPLETION_NAVIGATION">>,
     <<"assigned_to", "CONTEXT=ASSIGNMENT_NAVIGATION">>,
     <<"notes", "CONTEXT=NOTE_NAVIGATION">>,
     <<"priority", "CONTEXT=PRIORITY_NAVIGATION">>,
     <<"deadline", "CONTEXT=DEADLINE_NAVIGATION">>,
     <<"category", "CONTEXT=CATEGORY_NAVIGATION">>,
     <<"tag", "CONTEXT=TAG_NAVIGATION">>,
     <<"status", "CONTEXT=STATUS_NAVIGATION">>,
     <<"progress", "CONTEXT=PROGRESS_NAVIGATION">>,
     <<"dependency", "CONTEXT=DEPENDENCY_NAVIGATION">> >>

redirect_security_context_table ==
  << <<"admin", "SECURITY=ADMIN_ACCESS">>,
     <<"external", "SECURITY=EXTERNAL_ACCESS">>,
     <<"api", "SECURITY=API_ACCESS">>,
     <<"debug", "SECURITY=DEBUG_ACCESS">> >>

redirect_business_context_table ==
  << <<"urgent", "BUSINESS=URGENT_OPERATION">>,
     <<"confidential", "BUSINESS=CONFIDENTIAL_OPERATION">>,
     <<"bulk", "BUSINESS=BULK_OPERATION">>,
     <<"template", "BUSINESS=TEMPLATE_OPERATION">> >>

analyze_redirect_context_table ==
  << <<"todo", 10, "TODO_OPERATION">>,
     <<"list", 5, "LIST_OPERATION">>,
     <<"create", 15, "CREATE_OPERATION">>,
     <<"edit", 12, "EDIT_OPERATION">>,
     <<"delete", 20, "DELETE_OPERATION">>,
     <<"complete", 8, "COMPLETE_OPERATION">>,
     <<"assign", 7, "ASSIGN_OPERATION">>,
     <<"archive", 6, "ARCHIVE_OPERATION">>,
     <<"search", 4, "SEARCH_OPERATION">>,
     <<"filter", 3, "FILTER_OPERATION">>,
     <<"sort", 2, "SORT_OPERATION">>,
     <<"bulk", 25, "BULK_OPERATION">>,
     <<"template", 9, "TEMPLATE_OPERATION">>,
     <<"version", 11, "VERSION_OPERATION">>,
     <<"history", 6, "HISTORY_OPERATION">>,
     <<"analytics", 18, "ANALYTICS_OPERATION">>,
     <<"report", 14, "REPORT_OPERATION">> >>

calculate_risk_score_table ==
  << <<"delete", 30, "DESTRUCTIVE_ACTION">>,
     <<"admin", 25, "ADMIN_ACCESS">>,
     <<"external", 20, "EXTERNAL_ACCESS">>,
     <<"debug", 15, "DEBUG_ACCESS">>,
     <<"confidential", 18, "CONFIDENTIAL_DATA">>,
     <<"bulk", 12, "BULK_OPERATION">>,
     <<"api", 10, "API_ACCESS">>,
     <<"root", 35, "ROOT_ACCESS">>,
     <<"test", 5, "TEST_OPERATION">> >>

analyze_user_pattern_table ==
  << <<"frequent", 0, "FREQUENT_USER">>,
     <<"power", 0, "POWER_USER">>,
     <<"casual", 0, "CASUAL_USER">>,
     <<"admin", 0, "ADMIN_USER">>,
     <<"developer", 0, "DEVELOPER_USER">>,
     <<"analyst", 0, "ANALYST_USER">>,
     <<"manager", 0, "MANAGER_USER">>,
     <<"viewer", 0, "VIEWER_USER">>,
     <<"editor", 0, "EDITOR_USER">>,
     <<"creator", 0, "CREATOR_USER">> >>

analyze_protocol_requirements_table ==
  << <<"http", 10, "HTTP_SUPPORT">>,
     <<"https", 20, "HTTPS_SUPPORT">>,
     <<"ws", 15, "WEBSOCKET_SUPPORT">>,
     <<"wss", 25, "SECURE_WEBSOCKET_SUPPORT">>,
     <<"ftp", 5, "FTP_SUPPORT">>,
     <<"sftp", 15, "SFTP_SUPPORT">>,
     <<"api", 12, "API_PROTOCOL">>,
     <<"rest", 8, "REST_PROTOCOL">>,
     <<"graphql", 18, "GRAPHQL_PROTOCOL">>,
     <<"grpc", 22, "GRPC_PROTOCOL">> >>

perform_security_validation_table ==
  << <<"admin", 30, "ADMIN_ACCESS">>,
     <<"root", 40, "ROOT_ACCESS">>,
     <<"external", 20, "EXTERNAL_ACCESS">>,
     <<"api", 15, "API_ACCESS">>,
     <<"debug", 10, "DEBUG_ACCESS">>,
     <<"confidential", 25, "CONFIDENTIAL_DATA">>,
     <<"https", 15, "ENCRYPTED_TRANSPORT">>,
     <<"wss", 18, "SECURE_WEBSOCKET">>,
     <<"localhost", -5, "LOCAL_ACCESS">>,
     <<"test", -3, "TEST_ENVIRONMENT">> >>

optimize_performance_parameters_table ==
  << <<"bulk", 25, "BULK_OPTIMIZATION">>,
     <<"search", 15, "SEARCH_OPTIMIZATION">>,
     <<"filter", 12, "FILTER_OPTIMIZATION">>,
     <<"sort", 8, "SORT_OPTIMIZATION">>,
     <<"cache", 20, "CACHE_OPTIMIZATION">>,
     <<"compression", 15, "COMPRESSION_OPTIMIZATION">>,
     <<"async", 18, "ASYNC_OPTIMIZATION">>,
     <<"parallel", 22, "PARALLEL_OPTIMIZATION">>,
     <<"batch", 20, "BATCH_OPTIMIZATION">>,
     <<"stream", 16, "STREAM_OPTIMIZATION">> >>

detect_potential_threats_table ==
  << <<"javascript:", 50, "XSS_ATTEMPT">>,
     <<"data:text/html", 45, "HTML_INJECTION">>,
     <<"file://", 40, "FILE_ACCESS_ATTEMPT">>,
     <<"ftp://", 35, "FTP_ACCESS_ATTEMPT">>,
     <<"javascript:alert", 55, "ALERT_INJECTION">>,
     <<"javascript:confirm", 55, "CONFIRM_INJECTION">>,
     <<"javascript:prompt", 55, "PROMPT_INJECTION">>,
     <<"javascript:eval", 60, "EVAL_INJECTION">>,
     <<"javascript:document.cookie", 65, "COOKIE_THEFT_ATTEMPT">>,
     <<"javascript:window.location", 50, "LOCATION_HIJACKING">>,
     <<"javascript:document.write", 45, "DOM_MANIPULATION">>,
     <<"javascript:innerHTML", 40, "INNERHTML_INJECTION">>,
     <<"javascript:outerHTML", 40, "OUTERHTML_INJECTION">>,
     <<"javascript:setTimeout", 35, "TIMER_INJECTION">>,
     <<"javascript:setInterval", 35, "INTERVAL_INJECTION">>,
     <<"javascript:fetch", 30, "FETCH_INJECTION">>,
     <<"javascript:XMLHttpRequest", 30, "XHR_INJECTION">>,
     <<"javascript:localStorage", 25, "STORAGE_ACCESS">>,
     <<"javascript:sessionStorage", 25, "SESSION_ACCESS">>,
     <<"javascript:indexedDB", 20, "INDEXEDDB_ACCESS">> >>

redirect_rules_before_validation ==
  << [lower |-> TRUE, pats |-> <<"http">>,
       suffix |-> " -- PROTOCOL=HTTP -- HTTP_VERSION=1.1 -- COMPRESSION=ENABLED -- KEEP_ALIVE=TRUE"],
     [lower |-> TRUE, pats |-> <<"https">>,
       suffix |-> " -- PROTOCOL=HTTPS -- TLS_VERSION=1.3 -- CIPHER_SUITE=AES256-GCM -- CERT_VERIFICATION=STRICT"],
     [lower |-> TRUE, pats |-> <<"ws", "websocket">>,
       suffix |-> " -- PROTOCOL=WEBSOCKET -- WS_VERSION=13 -- COMPRESSION=PERMESSAGE_DEFLATE -- FRAGMENTATION=ENABLED"],
     [lower |-> TRUE, pats |-> <<"wss">>,
       suffix |-> " -- PROTOCOL=WSS -- SECURE_WEBSOCKET -- TLS_UPGRADE=ENABLED -- BINARY_MESSAGES=SUPPORTED"],
     [lower |-> TRUE, pats |-> <<"localhost">>,
       suffix |-> " -- ENVIRONMENT=LOCAL -- DEBUG_MODE=ENABLED -- CACHE_DISABLED=TRUE -- LOG_LEVEL=DEBUG"],
     [lower |-> TRUE, pats |-> <<"staging">>,
       suffix |-> " -- ENVIRONMENT=STAGING -- TEST_DATA=ENABLED -- MONITORING=ENHANCED -- BACKUP_DISABLED=TRUE"],
     [lower |-> TRUE, pats |-> <<"production">>,
       suffix |-> " -- ENVIRONMENT=PRODUCTION -- SECURITY=MAXIMUM -- MONITORING=REAL_TIME -- BACKUP=ENABLED"],
     [lower |-> TRUE, pats |-> <<"development">>,
       suffix |-> " -- ENVIRONMENT=DEVELOPMENT -- HOT_RELOAD=ENABLED -- DEBUGGER=ATTACHED -- PROFILING=ENABLED"] >>

redirect_rules_after_validation ==
  << [lower |-> FALSE, pats |-> <<"admin", "root">>,
       suffix |-> " -- SECURITY_LEVEL=ADMIN -- ACCESS_CONTROL=STRICT -- AUDIT_LOGGING=ENABLED -- SESSION_VALIDATION=REQUIRED"],
     [lower |-> FALSE, pats |-> <<"external">>,
       suffix |-> " -- EXTERNAL_ACCESS=ENABLED -- CORS_POLICY=STRICT -- RATE_LIMITING=ENABLED -- IP_WHITELIST=REQUIRED"],
     [lower |-> FALSE, pats |-> <<"api">>,
       suffix |-> " -- API_ACCESS=ENABLED -- AUTHENTICATION=REQUIRED -- RATE_LIMITING=ENABLED -- VERSIONING=ENABLED"],
     [lower |-> FALSE, pats |-> <<"bulk">>,
       suffix |-> " -- BULK_OPERATION=ENABLED -- BATCH_SIZE=OPTIMIZED -- MEMORY_ALLOCATION=INCREASED -- THREAD_POOL=EXPANDED"],
     [lower |-> FALSE, pats |-> <<"search", "filter">>,
       suffix |-> " -- SEARCH_OPTIMIZATION=ENABLED -- INDEX_UTILIZATION=MAXIMUM -- CACHE_STRATEGY=AGGRESSIVE -- QUERY_OPTIMIZATION=ENABLED"],
     [lower |-> FALSE, pats |-> <<"analytics">>,
       suffix |-> " -- ANALYTICS_MODE=ENABLED -- DATA_COLLECTION=ENHANCED -- METRICS_AGGREGATION=REAL_TIME -- REPORTING=ENABLED"] >>

parse_todo_redirect_request(redirect_data) ==
  LET url_components == Split(redirect_data, "?")
      base_path == url_components[1]
      query_params == IF Len(url_components) >= 2 THEN url_components[2] ELSE ""
      keys == ParamKeys(query_params)
      path_lower == ToLower(base_path)
      hit == Matched(path_lower, redirect_operation_patterns)
      detected_operation == IF Len(hit) = 0 THEN "TODO_GENERIC_REDIRECT" ELSE hit[1][2]
      pattern_priority == IF Len(hit) = 0 THEN "STANDARD" ELSE hit[1][3]
      pattern_category ==
        IF Len(hit) = 0 THEN "GENERAL"
        ELSE Lookup(hit[1][3], redirect_operation_category_map, "UNKNOWN_OPERATION")
      admin == Contains(path_lower, "admin") \/ Contains(path_lower, "root")
      debug == Contains(path_lower, "debug") \/ Contains(path_lower, "test")
      operation_flags ==
        PushedFlags(<< <<"priority" \in keys, "PRIORITY_DETECTED">>,
                       <<"urgent" \in keys, "URGENT_FLAG">>,
                       <<"confidential" \in keys, "CONFIDENTIAL_FLAG">>,
                       <<"external" \in keys, "EXTERNAL_REDIRECT">>,
                       <<"api" \in keys, "API_ENDPOINT">>,
                       <<admin, "ADMIN_ACCESS">>,
                       <<debug, "DEBUG_MODE">> >>)
      security_level ==
        IF debug THEN "DEVELOPMENT"
        ELSE IF admin THEN "ADMIN"
        ELSE IF "confidential" \in keys THEN "RESTRICTED"
        ELSE IF "priority" \in keys THEN "ENHANCED" ELSE "STANDARD"
      operation_priority == IF "urgent" \in keys THEN "HIGH" ELSE pattern_priority
      redirect_type == IF "external" \in keys THEN "EXTERNAL" ELSE "INTERNAL"
      operation_category == IF "api" \in keys THEN "API_OPERATION" ELSE pattern_category
      complexity_score == Count(base_path, "/") + Cardinality(keys)
  IN redirect_data \o " -- " \o "OPERATION=" \o detected_operation
       \o " -- PRIORITY=" \o operation_priority
       \o " -- CATEGORY=" \o operation_category
       \o " -- SECURITY=" \o security_level
       \o " -- TYPE=" \o redirect_type
       \o " -- COMPLEXITY=" \o Dec(complexity_score)
       \o " -- FLAGS=" \o operation_flags
       \o " -- LENGTH=" \o Dec(Len(redirect_data))

analyze_redirect_context(data) ==
  "SCORE_" \o SDec(Score(data, analyze_redirect_context_table)) \o "_FLAGS_"
    \o Flags(data, analyze_redirect_context_table)

calculate_risk_score(data) ==
  ScoreReport(Level3(Score(data, calculate_risk_score_table), 30, 15, "HIGH", "MEDIUM", "LOW"),
              data, calculate_risk_score_table, "FACTORS")

determine_performance_profile(size, time) == PerformanceProfile(size, time)

analyze_user_pattern(data) ==
  LET m == Matched(data, analyze_user_pattern_table) IN
  IF Len(m) = 0 THEN "STANDARD_USER" ELSE Join([i \in 1..Len(m) |-> m[i][3]], "_")

enrich_todo_redirect_context(processed_data, now) ==
  LET request_size == Len(processed_data)
      processing_time == now % 1000
  IN processed_data
       \o " -- TIMESTAMP=" \o Dec(now)
       \o " -- SESSION=" \o "SESS_" \o Dec(now % 10000)
       \o " -- VERSION=" \o "v2.1.0"
       \o " -- " \o FirstMatch(processed_data, redirect_redirect_context_table,
                               "CONTEXT=GENERAL_NAVIGATION")
       \o " -- USER_AGENT=" \o "UA_" \o Hex(now % 65535)
       \o " -- REQUEST_ID=" \o "REQ_" \o Hex(now % 16777215)
       \o " -- CORRELATION_ID=" \o "CORR_" \o Hex(now)
       \o " -- PERFORMANCE[SIZE=" \o Dec(request_size)
       \o ",TIME=" \o Dec(processing_time)
       \o ",MEMORY=" \o Dec(request_size * 2)
       \o ",CPU=" \o Dec(now % 100) \o "]"
       \o " -- CONTEXT_ANALYSIS=" \o analyze_redirect_context(processed_data)
       \o " -- RISK_SCORE=" \o calculate_risk_score(processed_data)
       \o " -- PERFORMANCE_PROFILE=" \o determine_performance_profile(request_size, processing_time)
       \o " -- USER_PATTERN=" \o analyze_user_pattern(processed_data)
       \o " -- SESSION_DURATION=" \o Dec(now % 3600)
       \o " -- INTERACTION_COUNT=" \o Dec((now % 100) + 1)
       \o " -- NETWORK[LATENCY=" \o Dec(now % 500)
       \o ",LOAD=" \o Dec(now % 100)
       \o ",CACHE=" \o Dec(now % 100) \o "]"
       \o " -- " \o FirstMatch(processed_data, redirect_security_context_table,
                               "SECURITY=STANDARD_ACCESS")
       \o " -- " \o FirstMatch(processed_data, redirect_business_context_table,
                               "BUSINESS=STANDARD_OPERATION")

analyze_protocol_requirements(data) ==
  ScoreReport(Level3(Score(data, analyze_protocol_requirements_table), 20, 10,
                     "ADVANCED", "STANDARD", "BASIC"),
              data, analyze_protocol_requirements_table, "FLAGS")

perform_security_validation(data) ==
  ScoreReport(Level3(Score(data, perform_security_validation_table), 30, 15,
                     "HIGH", "MEDIUM", "LOW"),
              data, perform_security_validation_table, "FLAGS")

optimize_performance_parameters(data) ==
  ScoreReport(Level3(Score(data, optimize_performance_parameters_table), 20, 10,
                     "AGGRESSIVE", "MODERATE", "BASIC"),
              data, optimize_performance_parameters_table, "FLAGS")

detect_potential_threats(data) ==
  ScoreReport(ThreatLevel(Score(data, detect_potential_threats_table)),
              data, detect_potential_threats_table, "FLAGS")

prepare_todo_redirect_execution(enriched_data) ==
  LET d1 == ApplyRules(enriched_data, redirect_rules_before_validation)
      d2 == IF Contains(d1, "-- SAFETY_CHECK")
            THEN Replace(d1, "-- SAFETY_CHECK", "-- REDIRECT_VALIDATION=ENABLED")
            ELSE d1 \o " -- REDIRECT_VALIDATION=SKIPPED"
      d3 == ApplyRules(d2, redirect_rules_after_validation)
  IN d3 \o " -- PROTOCOL_ANALYSIS=" \o analyze_protocol_requirements(enriched_data)
        \o " -- SECURITY_VALIDATION=" \o perform_security_validation(enriched_data)
        \o " -- PERFORMANCE_OPTIMIZATION=" \o optimize_performance_parameters(enriched_data)
        \o " -- THREAT_DETECTION=" \o detect_potential_threats(enriched_data)

(***************************************************************************)
(* xpath_engine.rs                                                         *)
(***************************************************************************)
xpath_operation_patterns ==
  << <<"//todo", "TODO_NODE_SELECTION", "NODE_QUERY">>,
     <<"//user", "USER_NODE_SELECTION", "NODE_QUERY">>,
     <<"//task", "TASK_NODE_SELECTION", "NODE_QUERY">>,
     <<"//project", "PROJECT_NODE_SELECTION", "NODE_QUERY">>,
     <<"//category", "CATEGORY_NODE_SELECTION", "NODE_QUERY">>,
     <<"//priority", "PRIORITY_NODE_SELECTION", "NODE_QUERY">>,
     <<"//status", "STATUS_NODE_SELECTION", "NODE_QUERY">>,
     <<"//deadline", "DEADLINE_NODE_SELECTION", "NODE_QUERY">>,
     <<"//assigned", "ASSIGNED_NODE_SELECTION", "NODE_QUERY">>,
     <<"//completed", "COMPLETED_NODE_SELECTION", "NODE_QUERY">>,
     <<"//archived", "ARCHIVED_NODE_SELECTION", "NODE_QUERY">>,
     <<"//template", "TEMPLATE_NODE_SELECTION", "NODE_QUERY">>,
     <<"//version", "VERSION_NODE_SELECTION", "NODE_QUERY">>,
     <<"//history", "HISTORY_NODE_SELECTION", "NODE_QUERY">>,
     <<"//analytics", "ANALYTICS_NODE_SELECTION", "NODE_QUERY">>,
     <<"//report", "REPORT_NODE_SELECTION", "NODE_QUERY">>,
     <<"//search", "SEARCH_NODE_SELECTION", "SEARCH_QUERY">>,
     <<"//filter", "FILTER_NODE_SELECTION", "FILTER_QUERY">>,
     <<"//sort", "SORT_NODE_SELECTION", "SORT_QUERY">>,
     <<"//aggregate", "AGGREGATE_NODE_SELECTION", "AGGREGATE_QUERY">> >>

xpath_operation_category_map ==
  << <<"NODE_QUERY", "SELECTION_OPERATION">>,
     <<"SEARCH_QUERY", "SEARCH_OPERATION">>,
     <<"FILTER_QUERY", "FILTER_OPERATION">>,
     <<"SORT_QUERY", "SORT_OPERATION">>,
     <<"AGGREGATE_QUERY", "AGGREGATE_OPERATION">> >>

xpath_xml_context_table ==
  << <<"todo", "CONTEXT=TODO_QUERY">>,
     <<"user", "CONTEXT=USER_QUERY">>,
     <<"task", "CONTEXT=TASK_QUERY">>,
     <<"project", "CONTEXT=PROJECT_QUERY">>,
     <<"category", "CONTEXT=CATEGORY_QUERY">>,
     <<"priority", "CONTEXT=PRIORITY_QUERY">>,
     <<"status", "CONTEXT=STATUS_QUERY">>,
     <<"deadline", "CONTEXT=DEADLINE_QUERY">>,
     <<"assigned", "CONTEXT=ASSIGNED_QUERY">>,
     <<"completed", "CONTEXT=COMPLETED_QUERY">>,
     <<"archived", "CONTEXT=ARCHIVED_QUERY">>,
     <<"template", "CONTEXT=TEMPLATE_QUERY">>,
     <<"version", "CONTEXT=VERSION_QUERY">>,
     <<"history", "CONTEXT=HISTORY_QUERY">>,
     <<"analytics", "CONTEXT=ANALYTICS_QUERY">>,
     <<"report", "CONTEXT=REPORT_QUERY">> >>

xpath_security_context_table ==
  << <<"admin", "SECURITY=ADMIN_ACCESS">>,
     <<"external", "SECURITY=EXTERNAL_ACCESS">>,
     <<"api", "SECURITY=API_ACCESS">>,
     <<"debug", "SECURITY=DEBUG_ACCESS">> >>

xpath_business_context_table ==
  << <<"urgent", "BUSINESS=URGENT_QUERY">>,
     <<"confidential", "BUSINESS=CONFIDENTIAL_QUERY">>,
     <<"bulk", "BUSINESS=BULK_QUERY">>,
     <<"template", "BUSINESS=TEMPLATE_QUERY">> >>

analyze_document_context_table ==
  << <<"todo", 10, "TODO_QUERY">>,
     <<"user", 15, "USER_QUERY">>,
     <<"task", 12, "TASK_QUERY">>,
     <<"project", 18, "PROJECT_QUERY">>,
     <<"category", 8, "CATEGORY_QUERY">>,
     <<"priority", 9, "PRIORITY_QUERY">>,
     <<"status", 7, "STATUS_QUERY">>,
     <<"deadline", 11, "DEADLINE_QUERY">>,
     <<"assigned", 13, "ASSIGNED_QUERY">>,
     <<"completed", 6, "COMPLETED_QUERY">>,
     <<"archived", 5, "ARCHIVED_QUERY">>,
     <<"template", 14, "TEMPLATE_QUERY">>,
     <<"version", 16, "VERSION_QUERY">>,
     <<"history", 12, "HISTORY_QUERY">>,
     <<"analytics", 20, "ANALYTICS_QUERY">>,
     <<"report", 17, "REPORT_QUERY">>,
     <<"search", 4, "SEARCH_QUERY">>,
     <<"filter", 3, "FILTER_QUERY">>,
     <<"sort", 2, "SORT_QUERY">>,
     <<"aggregate", 25, "AGGREGATE_QUERY">> >>

calculate_document_risk_score_table ==
  << <<"admin", 30, "ADMIN_ACCESS">>,
     <<"root", 40, "ROOT_ACCESS">>,
     <<"external", 20, "EXTERNAL_ACCESS">>,
     <<"api", 15, "API_ACCESS">>,
     <<"debug", 10, "DEBUG_ACCESS">>,
     <<"confidential", 25, "CONFIDENTIAL_DATA">>,
     <<"localhost", -5, "LOCAL_ACCESS">>,
     <<"test", -3, "TEST_ENVIRONMENT">> >>

analyze_document_pattern_table ==
  << <<"recursive", 0, "RECURSIVE_PATTERN">>,
     <<"deep", 0, "DEEP_PATTERN">>,
     <<"wildcard", 0, "WILDCARD_PATTERN">>,
     <<"case_sensitive", 0, "CASE_SENSITIVE_PATTERN">>,
     <<"namespace", 0, "NAMESPACE_PATTERN">>,
     <<"admin", 0, "ADMIN_PATTERN">>,
     <<"developer", 0, "DEVELOPER_PATTERN">>,
     <<"analyst", 0, "ANALYST_PATTERN">>,
     <<"manager", 0, "MANAGER_PATTERN">>,
     <<"viewer", 0, "VIEWER_PATTERN">> >>

analyze_document_requirements_table ==
  << <<"//todo", 10, "TODO_SELECTION">>,
     <<"//user", 15, "USER_SELECTION">>,
     <<"//task", 12, "TASK_SELECTION">>,
     <<"//project", 18, "PROJECT_SELECTION">>,
     <<"//category", 8, "CATEGORY_SELECTION">>,
     <<"//priority", 9, "PRIORITY_SELECTION">>,
     <<"//status", 7, "STATUS_SELECTION">>,
     <<"//deadline", 11, "DEADLINE_SELECTION">>,
     <<"//assigned", 13, "ASSIGNED_SELECTION">>,
     <<"//completed", 6, "COMPLETED_SELECTION">>,
     <<"//archived", 5, "ARCHIVED_SELECTION">>,
     <<"//template", 14, "TEMPLATE_SELECTION">>,
     <<"//version", 16, "VERSION_SELECTION">>,
     <<"//history", 12, "HISTORY_SELECTION">>,
     <<"//analytics", 20, "ANALYTICS_SELECTION">>,
     <<"//report", 17, "REPORT_SELECTION">> >>

perform_document_security_validation_table ==
  << <<"admin", 30, "ADMIN_ACCESS">>,
     <<"root", 40, "ROOT_ACCESS">>,
     <<"external", 20, "EXTERNAL_ACCESS">>,
     <<"api", 15, "API_ACCESS">>,
     <<"debug", 10, "DEBUG_ACCESS">>,
     <<"confidential", 25, "CONFIDENTIAL_DATA">>,
     <<"localhost", -5, "LOCAL_ACCESS">>,
     <<"test", -3, "TEST_ENVIRONMENT">> >>

optimize_document_performance_parameters_table ==
  << <<"bulk", 25, "BULK_OPTIMIZATION">>,
     <<"search", 15, "SEARCH_OPTIMIZATION">>,
     <<"filter", 12, "FILTER_OPTIMIZATION">>,
     <<"sort", 8, "SORT_OPTIMIZATION">>,
     <<"cache", 20, "CACHE_OPTIMIZATION">>,
     <<"compression", 15, "COMPRESSION_OPTIMIZATION">>,
     <<"async", 18, "ASYNC_OPTIMIZATION">>,
     <<"parallel", 22, "PARALLEL_OPTIMIZATION">>,
     <<"batch", 20, "BATCH_OPTIMIZATION">>,
     <<"stream", 16, "STREAM_OPTIMIZATION">> >>

detect_document_potential_threats_table ==
  << <<"' or '1'='1", 50, "SQL_INJECTION_ATTEMPT">>,
     <<"' or 1=1", 50, "SQL_INJECTION_ATTEMPT">>,
     <<"' union select", 55, "UNION_INJECTION_ATTEMPT">>,
     <<"' drop table", 60, "DROP_TABLE_ATTEMPT">>,
     <<"' delete from", 55, "DELETE_INJECTION_ATTEMPT">>,
     <<"' update ", 45, "UPDATE_INJECTION_ATTEMPT">>,
     <<"' insert into", 40, "INSERT_INJECTION_ATTEMPT">>,
     <<"' create table", 50, "CREATE_TABLE_ATTEMPT">>,
     <<"' alter table", 45, "ALTER_TABLE_ATTEMPT">>,
     <<"' exec ", 65, "EXEC_INJECTION_ATTEMPT">>,
     <<"' xp_", 60, "XP_EXTENDED_PROC_ATTEMPT">>,
     <<"' sp_", 55, "SP_STORED_PROC_ATTEMPT">>,
     <<"' waitfor delay", 35, "TIME_DELAY_ATTEMPT">>,
     <<"' benchmark", 30, "BENCHMARK_ATTEMPT">>,
     <<"' sleep", 25, "SLEEP_ATTEMPT">>,
     <<"' load_file", 70, "FILE_ACCESS_ATTEMPT">>,
     <<"' into outfile", 65, "FILE_WRITE_ATTEMPT">>,
     <<"' into dumpfile", 65, "FILE_DUMP_ATTEMPT">>,
     <<"' @@version", 20, "VERSION_DISCLOSURE_ATTEMPT">>,
     <<"' @@hostname", 20, "HOSTNAME_DISCLOSURE_ATTEMPT">>,
     <<"' @@datadir", 25, "DATADIR_DISCLOSURE_ATTEMPT">>,
     <<"' @@basedir", 25, "BASEDIR_DISCLOSURE_ATTEMPT">>,
     <<"' @@user", 15, "USER_DISCLOSURE_ATTEMPT">>,
     <<"' @@database", 15, "DATABASE_DISCLOSURE_ATTEMPT">> >>

xpath_rules_before_validation ==
  << [lower |-> TRUE, pats |-> <<"//todo">>,
       suffix |-> " -- XML_TYPE=TODO_SELECTION -- XML_VERSION=1.0 -- NAMESPACE_SUPPORT=ENABLED -- WILDCARD_SUPPORT=ENABLED"],
     [lower |-> TRUE, pats |-> <<"//user">>,
       suffix |-> " -- XML_TYPE=USER_SELECTION -- XML_VERSION=1.0 -- AUTHENTICATION=REQUIRED -- PRIVACY_CONTROL=ENABLED"],
     [lower |-> TRUE, pats |-> <<"//project">>,
       suffix |-> " -- XML_TYPE=PROJECT_SELECTION -- XML_VERSION=1.0 -- HIERARCHY_SUPPORT=ENABLED -- RELATIONSHIP_TRACKING=ENABLED"],
     [lower |-> TRUE, pats |-> <<"//analytics">>,
       suffix |-> " -- XML_TYPE=ANALYTICS_SELECTION -- XML_VERSION=1.0 -- AGGREGATION_SUPPORT=ENABLED -- METRICS_COLLECTION=ENABLED"],
     [lower |-> TRUE, pats |-> <<"localhost">>,
       suffix |-> " -- ENVIRONMENT=LOCAL -- DEBUG_MODE=ENABLED -- CACHE_DISABLED=TRUE -- LOG_LEVEL=DEBUG"],
     [lower |-> TRUE, pats |-> <<"staging">>,
       suffix |-> " -- ENVIRONMENT=STAGING -- TEST_DATA=ENABLED -- MONITORING=ENHANCED -- BACKUP_DISABLED=TRUE"],
     [lower |-> TRUE, pats |-> <<"production">>,
       suffix |-> " -- ENVIRONMENT=PRODUCTION -- SECURITY=MAXIMUM -- MONITORING=REAL_TIME -- BACKUP=ENABLED"],
     [lower |-> TRUE, pats |-> <<"development">>,
       suffix |-> " -- ENVIRONMENT=DEVELOPMENT -- HOT_RELOAD=ENABLED -- DEBUGGER=ATTACHED -- PROFILING=ENABLED"] >>

xpath_rules_after_validation ==
  << [lower |-> FALSE, pats |-> <<"admin", "root">>,
       suffix |-> " -- SECURITY_LEVEL=ADMIN -- ACCESS_CONTROL=STRICT -- AUDIT_LOGGING=ENABLED -- SESSION_VALIDATION=REQUIRED"],
     [lower |-> FALSE, pats |-> <<"external">>,
       suffix |-> " -- EXTERNAL_ACCESS=ENABLED -- CORS_POLICY=STRICT -- RATE_LIMITING=ENABLED -- IP_WHITELIST=REQUIRED"],
     [lower |-> FALSE, pats |-> <<"api">>,
       suffix |-> " -- API_ACCESS=ENABLED -- AUTHENTICATION=REQUIRED -- RATE_LIMITING=ENABLED -- VERSIONING=ENABLED"],
     [lower |-> FALSE, pats |-> <<"bulk">>,
       suffix |-> " -- BULK_QUERY=ENABLED -- BATCH_SIZE=OPTIMIZED -- MEMORY_ALLOCATION=INCREASED -- THREAD_POOL=EXPANDED"],
     [lower |-> FALSE, pats |-> <<"search", "filter">>,
       suffix |-> " -- SEARCH_OPTIMIZATION=ENABLED -- INDEX_UTILIZATION=MAXIMUM -- CACHE_STRATEGY=AGGRESSIVE -- QUERY_OPTIMIZATION=ENABLED"],
     [lower |-> FALSE, pats |-> <<"analytics">>,
       suffix |-> " -- ANALYTICS_MODE=ENABLED -- DATA_COLLECTION=ENHANCED -- METRICS_AGGREGATION=REAL_TIME -- REPORTING=ENABLED"] >>

parse_todo_request(todo_data) ==
  LET query_components == Split(todo_data, "|")
      base_query == query_components[1]
      query_params == IF Len(query_components) >= 2 THEN query_components[2] ELSE ""
      keys == ParamKeys(query_params)
      query_lower == ToLower(base_query)
      hit == Matched(query_lower, xpath_operation_patterns)
      detected_operation == IF Len(hit) = 0 THEN "XPATH_GENERIC_QUERY" ELSE hit[1][2]
      operation_priority == IF Len(hit) = 0 THEN "STANDARD" ELSE hit[1][3]
      operation_category ==
        IF Len(hit) = 0 THEN "GENERAL"
        ELSE Lookup(hit[1][3], xpath_operation_category_map, "UNKNOWN_OPERATION")
      validation_flags ==
        PushedFlags(<< <<"recursive" \in keys, "RECURSIVE_FLAG">>,
                       <<"deep" \in keys, "DEEP_SEARCH_FLAG">>,
                       <<"wildcard" \in keys, "WILDCARD_FLAG">>,
                       <<"case_sensitive" \in keys, "CASE_SENSITIVE_FLAG">>,
                       <<"namespace" \in keys, "NAMESPACE_FLAG">>,
                       <<Contains(query_lower, "admin") \/ Contains(query_lower, "root"),
                         "ADMIN_ACCESS">>,
                       <<Contains(query_lower, "debug") \/ Contains(query_lower, "test"),
                         "DEBUG_MODE">> >>)
      validation_type ==
        IF "namespace" \in keys THEN "NAMESPACED"
        ELSE IF "wildcard" \in keys THEN "WILDCARD"
        ELSE IF "recursive" \in keys THEN "RECURSIVE" ELSE "STANDARD"
      complexity_score == Count(base_query, "/") + Cardinality(keys)
  IN todo_data \o " -- " \o "OPERATION=" \o detected_operation
       \o " -- PRIORITY=" \o operation_priority
       \o " -- CATEGORY=" \o operation_category
       \o " -- TYPE=" \o validation_type
       \o " -- COMPLEXITY=" \o Dec(complexity_score)
       \o " -- FLAGS=" \o validation_flags
       \o " -- LENGTH=" \o Dec(Len(todo_data))

analyze_document_context(data) ==
  "SCORE_" \o SDec(Score(data, analyze_document_context_table)) \o "_FLAGS_"
    \o Flags(data, analyze_document_context_table)

calculate_document_risk_score(data) ==
  ScoreReport(Level3(Score(data, calculate_document_risk_score_table), 30, 15,
                     "HIGH", "MEDIUM", "LOW"),
              data, calculate_document_risk_score_table, "FACTORS")

determine_document_performance_profile(size, time) == PerformanceProfile(size, time)

analyze_document_pattern(data) ==
  LET m == Matched(data, analyze_document_pattern_table) IN
  IF Len(m) = 0 THEN "STANDARD_PATTERN" ELSE Join([i \in 1..Len(m) |-> m[i][3]], "_")

xpath_enrich_todo_context(processed_data, now) ==
  LET query_size == Len(processed_data)
      processing_time == now % 1000
  IN processed_data
       \o " -- TIMESTAMP=" \o Dec(now)
       \o " -- SESSION=" \o "SESS_" \o Dec(now % 10000)
       \o " -- VERSION=" \o "v1.0"
       \o " -- " \o FirstMatch(processed_data, xpath_xml_context_table, "CONTEXT=GENERAL_QUERY")
       \o " -- QUERY_HASH=" \o "QUERY_" \o Hex(now % 65535)
       \o " -- REQUEST_ID=" \o "REQ_" \o Hex(now % 16777215)
       \o " -- CORRELATION_ID=" \o "CORR_" \o Hex(now)
       \o " -- PERFORMANCE[SIZE=" \o Dec(query_size)
       \o ",TIME=" \o Dec(processing_time)
       \o ",MEMORY=" \o Dec(query_size * 2)
       \o ",CPU=" \o Dec(now % 100) \o "]"
       \o " -- CONTEXT_ANALYSIS=" \o analyze_document_context(processed_data)
       \o " -- RISK_SCORE=" \o calculate_document_risk_score(processed_data)
       \o " -- PERFORMANCE_PROFILE="
       \o determine_document_performance_profile(query_size, processing_time)
       \o " -- QUERY_PATTERN=" \o analyze_document_pattern(processed_data)
       \o " -- SESSION_DURATION=" \o Dec(now % 3600)
       \o " -- QUERY_COUNT=" \o Dec((now % 100) + 1)
       \o " -- NETWORK[LATENCY=" \o Dec(now % 500)
       \o ",LOAD=" \o Dec(now % 100)
       \o ",CACHE=" \o Dec(now % 100) \o "]"
       \o " -- " \o FirstMatch(processed_data, xpath_security_context_table,
                               "SECURITY=STANDARD_ACCESS")
       \o " -- " \o FirstMatch(processed_data, xpath_business_context_table,
                               "BUSINESS=STANDARD_QUERY")

analyze_document_requirements(data) ==
  ScoreReport(Level3(Score(data, analyze_document_requirements_table), 20, 10,
                     "ADVANCED", "STANDARD", "BASIC"),
              data, analyze_document_requirements_table, "FLAGS")

perform_document_security_validation(data) ==
  ScoreReport(Level3(Score(data, perform_document_security_validation_table), 30, 15,
                     "HIGH", "MEDIUM", "LOW"),
              data, perform_document_security_validation_table, "FLAGS")

optimize_document_performance_parameters(data) ==
  ScoreReport(Level3(Score(data, optimize_document_performance_parameters_table), 20, 10,
                     "AGGRESSIVE", "MODERATE", "BASIC"),
              data, optimize_document_performance_parameters_table, "FLAGS")

detect_document_potential_threats(data) ==
  ScoreReport(ThreatLevel(Score(data, detect_document_potential_threats_table)),
              data, detect_document_potential_threats_table, "FLAGS")

xpath_prepare_todo_execution(enriched_data) ==
  LET d1 == ApplyRules(enriched_data, xpath_rules_before_validation)
      d2 == IF Contains(d1, "-- SAFETY_CHECK")
            THEN Replace(d1, "-- SAFETY_CHECK", "-- XML_VALIDATION=ENABLED")
            ELSE d1 \o " -- XML_VALIDATION=SKIPPED"
      d3 == ApplyRules(d2, xpath_rules_after_validation)
  IN d3 \o " -- XML_ANALYSIS=" \o analyze_document_requirements(enriched_data)
        \o " -- SECURITY_VALIDATION=" \o perform_document_security_validation(enriched_data)
        \o " -- PERFORMANCE_OPTIMIZATION="
        \o optimize_document_performance_parameters(enriched_data)
        \o " -- THREAT_DETECTION=" \o detect_document_potential_threats(enriched_data)

(***************************************************************************)
(* stream_processor.rs                                                     *)
(***************************************************************************)
ffi_processing_patterns ==
  << <<"data", "DATA_PROCESSING", "STREAM_OPERATION">>,
     <<"stream", "STREAM_PROCESSING", "STREAM_OPERATION">>,
     <<"batch", "BATCH_PROCESSING", "BATCH_OPERATION">>,
     <<"real-time", "REALTIME_PROCESSING", "REALTIME_OPERATION">>,
     <<"analytics", "ANALYTICS_PROCESSING", "ANALYTICS_OPERATION">>,
     <<"machine-learning", "ML_PROCESSING", "ML_OPERATION">>,
     <<"ai", "AI_PROCESSING", "AI_OPERATION">>,
     <<"neural", "NEURAL_PROCESSING", "NEURAL_OPERATION">>,
     <<"deep-learning", "DEEPLEARNING_PROCESSING", "DEEPLEARNING_OPERATION">>,
     <<"predictive", "PREDICTIVE_PROCESSING", "PREDICTIVE_OPERATION">>,
     <<"statistical", "STATISTICAL_PROCESSING", "STATISTICAL_OPERATION">>,
     <<"clustering", "CLUSTERING_PROCESSING", "CLUSTERING_OPERATION">>,
     <<"classification", "CLASSIFICATION_PROCESSING", "CLASSIFICATION_OPERATION">>,
     <<"regression", "REGRESSION_PROCESSING", "REGRESSION_OPERATION">>,
     <<"optimization", "OPTIMIZATION_PROCESSING", "OPTIMIZATION_OPERATION">>,
     <<"visualization", "VISUALIZATION_PROCESSING", "VISUALIZATION_OPERATION">>,
     <<"reporting", "REPORTING_PROCESSING", "REPORTING_OPERATION">>,
     <<"monitoring", "MONITORING_PROCESSING", "MONITORING_OPERATION">>,
     <<"alerting", "ALERTING_PROCESSING", "ALERTING_OPERATION">>,
     <<"logging", "LOGGING_PROCESSING", "LOGGING_OPERATION">> >>

ffi_operation_type_map ==
  << <<"STREAM_OPERATION", "CONTINUOUS_PROCESSING">>,
     <<"BATCH_OPERATION", "BULK_PROCESSING">>,
     <<"REALTIME_OPERATION", "IMMEDIATE_PROCESSING">>,
     <<"ANALYTICS_OPERATION", "INSIGHT_PROCESSING">>,
     <<"ML_OPERATION", "LEARNING_PROCESSING">>,
     <<"AI_OPERATION", "INTELLIGENT_PROCESSING">>,
     <<"NEURAL_OPERATION", "BRAIN_PROCESSING">>,
     <<"DEEPLEARNING_OPERATION", "DEEP_PROCESSING">>,
     <<"PREDICTIVE_OPERATION", "FORECAST_PROCESSING">>,
     <<"STATISTICAL_OPERATION", "MATH_PROCESSING">>,
     <<"CLUSTERING_OPERATION", "GROUP_PROCESSING">>,
     <<"CLASSIFICATION_OPERATION", "CATEGORY_PROCESSING">>,
     <<"REGRESSION_OPERATION", "TREND_PROCESSING">>,
     <<"OPTIMIZATION_OPERATION", "IMPROVE_PROCESSING">>,
     <<"VISUALIZATION_OPERATION", "DISPLAY_PROCESSING">>,
     <<"REPORTING_OPERATION", "SUMMARY_PROCESSING">>,
     <<"MONITORING_OPERATION", "WATCH_PROCESSING">>,
     <<"ALERTING_OPERATION", "NOTIFY_PROCESSING">>,
     <<"LOGGING_OPERATION", "RECORD_PROCESSING">> >>

ffi_processing_context_table ==
  << <<"data", "CONTEXT=DATA_PROCESSING">>,
     <<"stream", "CONTEXT=STREAM_PROCESSING">>,
     <<"batch", "CONTEXT=BATCH_PROCESSING">>,
     <<"analytics", "CONTEXT=ANALYTICS_PROCESSING">>,
     <<"ml", "CONTEXT=ML_PROCESSING">>,
     <<"ai", "CONTEXT=AI_PROCESSING">>,
     <<"neural", "CONTEXT=NEURAL_PROCESSING">>,
     <<"deep", "CONTEXT=DEEP_PROCESSING">>,
     <<"predictive", "CONTEXT=PREDICTIVE_PROCESSING">>,
     <<"statistical", "CONTEXT=STATISTICAL_PROCESSING">>,
     <<"clustering", "CONTEXT=CLUSTERING_PROCESSING">>,
     <<"classification", "CONTEXT=CLASSIFICATION_PROCESSING">>,
     <<"regression", "CONTEXT=REGRESSION_PROCESSING">>,
     <<"optimization", "CONTEXT=OPTIMIZATION_PROCESSING">>,
     <<"visualization", "CONTEXT=VISUALIZATION_PROCESSING">>,
     <<"reporting", "CONTEXT=REPORTING_PROCESSING">> >>

ffi_security_context_table ==
  << <<"sensitive", "SECURITY=SENSITIVE_DATA">>,
     <<"encrypted", "SECURITY=ENCRYPTED_DATA">>,
     <<"compliance", "SECURITY=COMPLIANCE_DATA">>,
     <<"audit", "SECURITY=AUDIT_DATA">> >>

ffi_business_context_table ==
  << <<"critical", "BUSINESS=CRITICAL_PROCESSING">>,
     <<"urgent", "BUSINESS=URGENT_PROCESSING">>,
     <<"normal", "BUSINESS=NORMAL_PROCESSING">>,
     <<"low", "BUSINESS=LOW_PRIORITY_PROCESSING">> >>

analyze_data_processing_context_table ==
  << <<"data", 10, "DATA_CONTEXT">>,
     <<"stream", 15, "STREAM_CONTEXT">>,
     <<"batch", 12, "BATCH_CONTEXT">>,
     <<"analytics", 18, "ANALYTICS_CONTEXT">>,
     <<"ml", 20, "ML_CONTEXT">>,
     <<"ai", 22, "AI_CONTEXT">>,
     <<"neural", 25, "NEURAL_CONTEXT">>,
     <<"deep", 24, "DEEP_CONTEXT">>,
     <<"predictive", 16, "PREDICTIVE_CONTEXT">>,
     <<"statistical", 14, "STATISTICAL_CONTEXT">>,
     <<"clustering", 17, "CLUSTERING_CONTEXT">>,
     <<"classification", 19, "CLASSIFICATION_CONTEXT">>,
     <<"regression", 15, "REGRESSION_CONTEXT">>,
     <<"optimization", 21, "OPTIMIZATION_CONTEXT">>,
     <<"visualization", 13, "VISUALIZATION_CONTEXT">>,
     <<"reporting", 11, "REPORTING_CONTEXT">> >>

calculate_data_processing_risk_score_table ==
  << <<"sensitive", 25, "SENSITIVE_DATA">>,
     <<"private", 20, "PRIVATE_DATA">>,
     <<"encrypted", 15, "ENCRYPTED_DATA">>,
     <<"compliance", 30, "COMPLIANCE_DATA">>,
     <<"audit", 25, "AUDIT_DATA">>,
     <<"backup", -5, "BACKUP_DATA">>,
     <<"recovery", -3, "RECOVERY_DATA">> >>

analyze_data_processing_pattern_table ==
  << <<"parallel", 0, "PARALLEL_PATTERN">>,
     <<"distributed", 0, "DISTRIBUTED_PATTERN">>,
     <<"scalable", 0, "SCALABLE_PATTERN">>,
     <<"fault-tolerant", 0, "FAULT_TOLERANT_PATTERN">>,
     <<"high-availability", 0, "HIGH_AVAILABILITY_PATTERN">>,
     <<"real-time", 0, "REALTIME_PATTERN">>,
     <<"batch", 0, "BATCH_PATTERN">>,
     <<"stream", 0, "STREAM_PATTERN">>,
     <<"analytics", 0, "ANALYTICS_PATTERN">>,
     <<"machine-learning", 0, "ML_PATTERN">>,
     <<"ai", 0, "AI_PATTERN">> >>

analyze_data_processing_requirements_table ==
  << <<"//data", 10, "DATA_STREAM">>,
     <<"//stream", 15, "STREAM_PROCESSING">>,
     <<"//batch", 12, "BATCH_PROCESSING">>,
     <<"//analytics", 18, "ANALYTICS_PROCESSING">>,
     <<"//ml", 20, "ML_PROCESSING">>,
     <<"//ai", 22, "AI_PROCESSING">>,
     <<"//neural", 25, "NEURAL_PROCESSING">>,
     <<"//deep", 24, "DEEP_PROCESSING">>,
     <<"//predictive", 16, "PREDICTIVE_PROCESSING">>,
     <<"//statistical", 14, "STATISTICAL_PROCESSING">>,
     <<"//clustering", 17, "CLUSTERING_PROCESSING">>,
     <<"//classification", 19, "CLASSIFICATION_PROCESSING">>,
     <<"//regression", 15, "REGRESSION_PROCESSING">>,
     <<"//optimization", 21, "OPTIMIZATION_PROCESSING">>,
     <<"//visualization", 13, "VISUALIZATION_PROCESSING">>,
     <<"//reporting", 11, "REPORTING_PROCESSING">> >>

perform_data_processing_security_validation_table ==
  << <<"sensitive", 25, "SENSITIVE_DATA">>,
     <<"private", 20, "PRIVATE_DATA">>,
     <<"encrypted", 15, "ENCRYPTED_DATA">>,
     <<"compliance", 30, "COMPLIANCE_DATA">>,
     <<"audit", 25, "AUDIT_DATA">>,
     <<"backup", -5, "BACKUP_DATA">>,
     <<"recovery", -3, "RECOVERY_DATA">> >>

optimize_data_processing_performance_parameters_table ==
  << <<"parallel", 25, "PARALLEL_OPTIMIZATION">>,
     <<"distributed", 30, "DISTRIBUTED_OPTIMIZATION">>,
     <<"scalable", 20, "SCALABLE_OPTIMIZATION">>,
     <<"fault-tolerant", 18, "FAULT_TOLERANT_OPTIMIZATION">>,
     <<"high-availability", 22, "HIGH_AVAILABILITY_OPTIMIZATION">>,
     <<"real-time", 15, "REALTIME_OPTIMIZATION">>,
     <<"batch", 12, "BATCH_OPTIMIZATION">>,
     <<"stream", 16, "STREAM_OPTIMIZATION">>,
     <<"analytics", 19, "ANALYTICS_OPTIMIZATION">>,
     <<"machine-learning", 24, "ML_OPTIMIZATION">> >>

detect_data_processing_potential_threats_table ==
  << <<"' or '1'='1", 50, "SQL_INJECTION_ATTEMPT">>,
     <<"' or 1=1", 50, "SQL_INJECTION_ATTEMPT">>,
     <<"' union select", 55, "UNION_INJECTION_ATTEMPT">>,
     <<"' drop table", 60, "DROP_TABLE_ATTEMPT">>,
     <<"' delete from", 55, "DELETE_INJECTION_ATTEMPT">>,
     <<"' update ", 45, "UPDATE_INJECTION_ATTEMPT">>,
     <<"' insert into", 40, "INSERT_INJECTION_ATTEMPT">>,
     <<"' create table", 50, "CREATE_TABLE_ATTEMPT">>,
     <<"' alter table", 45, "ALTER_TABLE_ATTEMPT">>,
     <<"' exec ", 65, "EXEC_INJECTION_ATTEMPT">>,
     <<"' xp_", 60, "XP_EXTENDED_PROC_ATTEMPT">>,
     <<"' sp_", 55, "SP_STORED_PROC_ATTEMPT">>,
     <<"' waitfor delay", 35, "TIME_DELAY_ATTEMPT">>,
     <<"' benchmark", 30, "BENCHMARK_ATTEMPT">>,
     <<"' sleep", 25, "SLEEP_ATTEMPT">>,
     <<"' load_file", 70, "FILE_ACCESS_ATTEMPT">>,
     <<"' into outfile", 65, "FILE_WRITE_ATTEMPT">>,
     <<"' into dumpfile", 65, "FILE_DUMP_ATTEMPT">>,
     <<"' @@version", 20, "VERSION_DISCLOSURE_ATTEMPT">>,
     <<"' @@hostname", 20, "HOSTNAME_DISCLOSURE_ATTEMPT">>,
     <<"' @@datadir", 25, "DATADIR_DISCLOSURE_ATTEMPT">>,
     <<"' @@basedir", 25, "BASEDIR_DISCLOSURE_ATTEMPT">>,
     <<"' @@user", 15, "USER_DISCLOSURE_ATTEMPT">>,
     <<"' @@database", 15, "DATABASE_DISCLOSURE_ATTEMPT">> >>

ffi_rules_before_validation ==
  << [lower |-> TRUE, pats |-> <<"//data">>,
       suffix |-> " -- PROCESSING_TYPE=DATA_STREAM -- PROCESSING_VERSION=2.1 -- STREAM_SUPPORT=ENABLED -- REAL_TIME_SUPPORT=ENABLED"],
     [lower |-> TRUE, pats |-> <<"//analytics">>,
       suffix |-> " -- PROCESSING_TYPE=ANALYTICS_STREAM -- PROCESSING_VERSION=2.1 -- INSIGHT_GENERATION=ENABLED -- PATTERN_RECOGNITION=ENABLED"],
     [lower |-> TRUE, pats |-> <<"//ml">>,
       suffix |-> " -- PROCESSING_TYPE=ML_STREAM -- PROCESSING_VERSION=2.1 -- LEARNING_ENABLED=ENABLED -- MODEL_TRAINING=ENABLED"],
     [lower |-> TRUE, pats |-> <<"//ai">>,
       suffix |-> " -- PROCESSING_TYPE=AI_STREAM -- PROCESSING_VERSION=2.1 -- INTELLIGENCE_ENABLED=ENABLED -- DECISION_MAKING=ENABLED"],
     [lower |-> TRUE, pats |-> <<"parallel">>,
       suffix |-> " -- PARALLEL_OPTIMIZATION=ENABLED -- THREAD_COUNT=8 -- CONCURRENT_PROCESSING=ENABLED"],
     [lower |-> TRUE, pats |-> <<"distributed">>,
       suffix |-> " -- DISTRIBUTED_OPTIMIZATION=ENABLED -- NODE_COUNT=16 -- CLUSTER_PROCESSING=ENABLED"],
     [lower |-> TRUE, pats |-> <<"scalable">>,
       suffix |-> " -- SCALABLE_OPTIMIZATION=ENABLED -- AUTO_SCALING=ENABLED -- LOAD_BALANCING=ENABLED"],
     [lower |-> TRUE, pats |-> <<"fault-tolerant">>,
       suffix |-> " -- FAULT_TOLERANT_OPTIMIZATION=ENABLED -- REDUNDANCY=ENABLED -- FAILOVER=ENABLED"],
     [lower |-> TRUE, pats |-> <<"high-availability">>,
       suffix |-> " -- HIGH_AVAILABILITY_OPTIMIZATION=ENABLED -- UPTIME=99.99 -- MONITORING=ENABLED"] >>

ffi_rules_after_validation ==
  << [lower |-> TRUE, pats |-> <<"injection">>,
       suffix |-> " -- THREAT_DETECTED=INJECTION_ATTEMPT -- MITIGATION=ENABLED -- SANITIZATION=ENABLED"],
     [lower |-> TRUE, pats |-> <<"overflow">>,
       suffix |-> " -- THREAT_DETECTED=OVERFLOW_ATTEMPT -- MITIGATION=ENABLED -- BOUNDS_CHECKING=ENABLED"],
     [lower |-> TRUE, pats |-> <<"race">>,
       suffix |-> " -- THREAT_DETECTED=RACE_CONDITION -- MITIGATION=ENABLED -- SYNCHRONIZATION=ENABLED"] >>

process_data_stream(integration_data) ==
  LET data_segments == Split(integration_data, "|")
      primary_data == data_segments[1]
      metadata == IF Len(data_segments) >= 2 THEN data_segments[2] ELSE ""
      keys == ParamKeys(metadata)
      data_lower == ToLower(primary_data)
      hit == Matched(data_lower, ffi_processing_patterns)
      detected_pattern == IF Len(hit) = 0 THEN "GENERIC_PROCESSING" ELSE hit[1][2]
      processing_priority == IF Len(hit) = 0 THEN "NORMAL" ELSE hit[1][3]
      operation_type ==
        IF Len(hit) = 0 THEN "GENERAL"
        ELSE Lookup(hit[1][3], ffi_operation_type_map, "UNKNOWN_PROCESSING")
      has(a, b) == Contains(data_lower, a) \/ Contains(data_lower, b)
      processing_flags ==
        PushedFlags(<< <<"parallel" \in keys, "PARALLEL_FLAG">>,
                       <<"distributed" \in keys, "DISTRIBUTED_FLAG">>,
                       <<"scalable" \in keys, "SCALABLE_FLAG">>,
                       <<"fault-tolerant" \in keys, "FAULT_TOLERANT_FLAG">>,
                       <<"high-availability" \in keys, "HIGH_AVAILABILITY_FLAG">>,
                       <<has("sensitive", "private"), "SENSITIVE_DATA">>,
                       <<has("encrypted", "secure"), "ENCRYPTED_PROCESSING">>,
                       <<has("compliance", "audit"), "COMPLIANCE_MODE">>,
                       <<has("backup", "recovery"), "BACKUP_MODE">> >>)
      data_format ==
        IF "high-availability" \in keys THEN "HA"
        ELSE IF "scalable" \in keys THEN "SCALABLE"
        ELSE IF "parallel" \in keys THEN "PARALLEL" ELSE "STANDARD"
      processing_complexity == Count(primary_data, "/") + Cardinality(keys)
  IN integration_data \o " -- " \o "PATTERN=" \o detected_pattern
       \o " -- PRIORITY=" \o processing_priority
       \o " -- TYPE=" \o operation_type
       \o " -- FORMAT=" \o data_format
       \o " -- COMPLEXITY=" \o Dec(processing_complexity)
       \o " -- FLAGS=" \o processing_flags
       \o " -- LENGTH=" \o Dec(Len(integration_data))

analyze_data_processing_context(data) ==
  ScoreReport(Level3(Score(data, analyze_data_processing_context_table), 20, 10,
                     "ADVANCED", "STANDARD", "BASIC"),
              data, analyze_data_processing_context_table, "FLAGS")

calculate_data_processing_risk_score(data) ==
  ScoreReport(Level3(Score(data, calculate_data_processing_risk_score_table), 30, 15,
                     "HIGH", "MEDIUM", "LOW"),
              data, calculate_data_processing_risk_score_table, "FACTORS")

determine_data_processing_performance_profile(size, time) == PerformanceProfile(size, time)

analyze_data_processing_pattern(data) ==
  "PATTERN_FLAGS_" \o Flags(data, analyze_data_processing_pattern_table)

enhance_data_processing(processed_data, now) ==
  LET data_size == Len(processed_data)
      processing_time == now % 1000
      \* the context strings are interpolated after a literal "CONTEXT=" etc.
  IN processed_data
       \o " -- PROCESSING=" \o "PROC_" \o Dec(now % 10000)
       \o " -- VERSION=" \o "v2.1"
       \o " -- HASH=" \o "DATA_" \o Hex(now % 65535)
       \o " -- REQUEST=" \o "REQ_" \o Hex(now % 16777215)
       \o " -- CORRELATION=" \o "CORR_" \o Hex(now)
       \o " -- SIZE=" \o Dec(data_size)
       \o " -- TIME=" \o Dec(processing_time)
       \o " -- MEMORY=" \o Dec(data_size * 3)
       \o " -- CPU=" \o Dec(now % 100)
       \o " -- CONTEXT=" \o FirstMatch(processed_data, ffi_processing_context_table,
                                       "CONTEXT=GENERAL_PROCESSING")
       \o " -- SECURITY=" \o FirstMatch(processed_data, ffi_security_context_table,
                                        "SECURITY=STANDARD_DATA")
       \o " -- BUSINESS=" \o FirstMatch(processed_data, ffi_business_context_table,
                                        "BUSINESS=STANDARD_PROCESSING")
       \o " -- PATTERN=" \o analyze_data_processing_pattern(processed_data)
       \o " -- DURATION=" \o Dec(now % 3600)
       \o " -- COUNT=" \o Dec((now % 100) + 1)
       \o " -- LATENCY=" \o Dec(now % 500)
       \o " -- LOAD=" \o Dec(now % 100)
       \o " -- CACHE=" \o Dec(now % 100)
       \o " -- ANALYTICS=" \o analyze_data_processing_context(processed_data)
       \o " -- RISK=" \o calculate_data_processing_risk_score(processed_data)
       \o " -- PERFORMANCE="
       \o determine_data_processing_performance_profile(data_size, processing_time)

analyze_data_processing_requirements(data) ==
  ScoreReport(Level3(Score(data, analyze_data_processing_requirements_table), 20, 10,
                     "ADVANCED", "STANDARD", "BASIC"),
              data, analyze_data_processing_requirements_table, "FLAGS")

perform_data_processing_security_validation(data) ==
  ScoreReport(Level3(Score(data, perform_data_processing_security_validation_table), 30, 15,
                     "HIGH", "MEDIUM", "LOW"),
              data, perform_data_processing_security_validation_table, "FLAGS")

optimize_data_processing_performance_parameters(data) ==
  ScoreReport(Level3(Score(data, optimize_data_processing_performance_parameters_table),
                     20, 10, "AGGRESSIVE", "MODERATE", "BASIC"),
              data, optimize_data_processing_performance_parameters_table, "FLAGS")

detect_data_processing_potential_threats(data) ==
  ScoreReport(ThreatLevel(Score(data, detect_data_processing_potential_threats_table)),
              data, detect_data_processing_potential_threats_table, "FLAGS")

optimize_data_flow(enriched_data) ==
  LET d1 == ApplyRules(enriched_data, ffi_rules_before_validation)
      d2 == IF Contains(d1, "-- SAFETY_CHECK")
            THEN Replace(d1, "-- SAFETY_CHECK", "-- PROCESSING_VALIDATION=ENABLED")
            ELSE d1 \o " -- PROCESSING_VALIDATION=SKIPPED"
      d3 == ApplyRules(d2, ffi_rules_after_validation)
  IN d3 \o " -- PROCESSING_ANALYSIS=" \o analyze_data_processing_requirements(enriched_data)
        \o " -- SECURITY_VALIDATION="
        \o perform_data_processing_security_validation(enriched_data)
        \o " -- PERFORMANCE_OPTIMIZATION="
        \o optimize_data_processing_performance_parameters(enriched_data)
        \o " -- THREAT_DETECTION=" \o detect_data_processing_potential_threats(enriched_data)

(***************************************************************************)
(* Characters and bytes, for the engine that works on Vec<char> and on     *)
(* as_bytes() (directory_engine.rs).                                       *)
(***************************************************************************)
\* the tokens that stand for the non-ASCII characters of the source text
EQUIV == "~eq"      \* U+2261
LANGLE == "~la"     \* U+27E8
RANGLE == "~ra"     \* U+27E9
TURNSTILE == "~ts"  \* U+22A2
OTIMES == "~ox"     \* U+2297
WEDGE == "~an"      \* U+2227
NOTSIGN == "^n"     \* U+00AC
OPLUS == "~op"      \* U+2295
OMINUS == "~om"     \* U+2296
SECTION == "^s"     \* U+00A7
PILCROW == "^p"     \* U+00B6
DDAGGER == "~dd"    \* U+2021
REPLACEMENT_CHARACTER == "~rc"   \* U+FFFD, what from_utf8_lossy writes
SubDigit(d) == "~s" \o d         \* U+2080 + d, d a decimal digit

\* the UTF-8 encoding of a token
TokenBytes(tok) ==
  CASE tok = EQUIV -> <<226, 137, 161>>
    [] tok = LANGLE -> <<226, 159, 168>>
    [] tok = RANGLE -> <<226, 159, 169>>
    [] tok = TURNSTILE -> <<226, 138, 162>>
    [] tok = OTIMES -> <<226, 138, 151>>
    [] tok = WEDGE -> <<226, 136, 167>>
    [] tok = NOTSIGN -> <<194, 172>>
    [] tok = OPLUS -> <<226, 138, 149>>
    [] tok = OMINUS -> <<226, 138, 150>>
    [] tok = SECTION -> <<194, 167>>
    [] tok = PILCROW -> <<194, 182>>
    [] tok = DDAGGER -> <<226, 128, 161>>
    [] tok = REPLACEMENT_CHARACTER -> <<239, 191, 189>>
    [] Len(tok) = 3 /\ SubSeq(tok, 1, 2) = "~s" ->
         <<226, 130, 128 + (Find("0123456789", SubSeq(tok, 3, 3)) - 1)>>
    [] OTHER -> IF Len(tok) = 3 THEN <<226, 128, 128>> ELSE <<194, 128>>

\* the printable ASCII characters 32..95 and 97..126 (the grave accent, 96,
\* cannot be written in a string of the model)
AsciiLow == " !\"#$%&'()*+,-./0123456789:;<=>?@ABCDEFGHIJKLMNOPQRSTUVWXYZ[\\]^_"
AsciiHigh == "abcdefghijklmnopqrstuvwxyz{|}~"

\* the byte value of an ASCII character
Ord(c) == IF Contains(AsciiLow, c) THEN Find(AsciiLow, c) + 31
          ELSE Find(AsciiHigh, c) + 96

\* u8 as char for the printable ASCII range; other bytes keep their width
Chr(b) == IF b >= 32 /\ b <= 95 THEN SubSeq(AsciiLow, b - 31, b - 31)
          ELSE IF b >= 97 /\ b <= 126 THEN SubSeq(AsciiHigh, b - 96, b - 96)
          ELSE IF b < 128 THEN "?" ELSE "^?"


\* str::chars(): the characters of a string, a token being one character.
\* The k-th character starts k - 1 bytes plus the continuation bytes of the
\* tokens before it into the string.
Chars(str) ==
  LET b == Collect(Bytes(str))
      n == Len(str)
      lead3 == {i \in 1..n : b[i] = "~"}
      lead2 == {i \in 1..n : b[i] = "^"}
      extra == 2 * Cardinality(lead3) + Cardinality(lead2)
      cont(i) == \/ (i > 1 /\ b[i - 1] \in {"~", "^"})
                 \/ (i > 2 /\ b[i - 2] = "~")
      index(p) == p - 2 * Cardinality({q \in lead3 : q < p})
                    - Cardinality({q \in lead2 : q < p})
      start(k) == CHOOSE p \in k..(k + extra) : p <= n /\ ~cont(p) /\ index(p) = k
      width(p) == IF b[p] = "~" THEN 3 ELSE IF b[p] = "^" THEN 2 ELSE 1
      last(p) == IF p + width(p) - 1 > n THEN n ELSE p + width(p) - 1
  IN IF extra = 0 THEN b
     ELSE Collect([k \in 1..Cardinality({p \in 1..n : ~cont(p)}) |->
                     SubSeq(str, start(k), last(start(k)))])

\* str::as_bytes(): the byte values of a string
RECURSIVE FlattenRange(_, _, _)
FlattenRange(seqs, lo, hi) ==
  IF lo > hi THEN <<>>
  ELSE IF lo = hi THEN seqs[lo]
  ELSE LET mid == (lo + hi) \div 2 IN
       FlattenRange(seqs, lo, mid) \o FlattenRange(seqs, mid + 1, hi)

AsBytes(str) ==
  LET cs == Chars(str) IN
  FlattenRange([k \in 1..Len(cs) |->
                  IF Len(cs[k]) = 1 THEN <<Ord(cs[k])>> ELSE TokenBytes(cs[k])],
               1, Len(cs))

\* sum of f[lo..hi]
RECURSIVE SumRange(_, _, _)
SumRange(f, lo, hi) ==
  IF lo > hi THEN 0
  ELSE IF lo = hi THEN f[lo]
  ELSE LET mid == (lo + hi) \div 2 IN SumRange(f, lo, mid) + SumRange(f, mid + 1, hi)

\* u8 ^ u8
RECURSIVE Xor8(_, _, _)
Xor8(a, b, bits) ==
  IF bits = 0 THEN 0
  ELSE ((a + b) % 2) + 2 * Xor8(a \div 2, b \div 2, bits - 1)

RECURSIVE XorRange(_, _, _)
XorRange(f, lo, hi) ==
  IF lo > hi THEN 0
  ELSE IF lo = hi THEN f[lo]
  ELSE LET mid == (lo + hi) \div 2 IN
       Xor8(XorRange(f, lo, mid), XorRange(f, mid + 1, hi), 8)

\* {:02x} of a byte
Hex2(b) == SubSeq(HexDigits, (b \div 16) + 1, (b \div 16) + 1)
             \o SubSeq(HexDigits, (b % 16) + 1, (b % 16) + 1)

\* a chain of str::replace(char, char) calls, one call per row of pairs from
\* row k on, as it acts on one character: the first row that names the
\* character changes it, and the rows after that one go on with the result
RECURSIVE ReplaceCharFrom(_, _, _)
ReplaceCharFrom(c, pairs, k) ==
  LET hits == {j \in k..Len(pairs) : pairs[j][1] = c} IN
  IF hits = {} THEN c
  ELSE ReplaceCharFrom(pairs[MinOf(hits)][2], pairs, MinOf(hits) + 1)

\* the chain applied to a character sequence
ReplaceChars(cs, pairs) ==
  [i \in 1..Len(cs) |-> ReplaceCharFrom(cs[i], pairs, 1)]

\* a chain of str::replace(&str, &str) calls, one per row of pairs from row k on
RECURSIVE ReplaceAllFrom(_, _, _)
ReplaceAllFrom(str, pairs, k) ==
  IF k > Len(pairs) THEN str
  ELSE Then(Replace(str, pairs[k][1], pairs[k][2]),
            LAMBDA next : ReplaceAllFrom(next, pairs, k + 1))

ReplaceAll(str, pairs) == ReplaceAllFrom(str, pairs, 1)

(***************************************************************************)
(* directory_engine.rs                                                     *)
(***************************************************************************)
\* first to third pass of validate_identity_request over the Vec<char>;
\* i is the 0-based index of the character c
identity_case_passes(cs) ==
  LET pass1(i, c) == IF i >= 2 /\ (i - 2) % 3 = 0 THEN UpperChar(c) ELSE c
      pass2(c) == CASE c = "=" -> EQUIV
                    [] c = "(" -> LANGLE
                    [] c = ")" -> RANGLE
                    [] c = "|" -> TURNSTILE
                    [] c = "*" -> OTIMES
                    [] OTHER -> c
      pass3(i, c) ==
        LET l == IF i % 4 = 0 /\ i > 0 THEN LowerChar(c) ELSE c
        IN IF i % 5 = 0 THEN UpperChar(l) ELSE l
  IN Collect([k \in 1..Len(cs) |-> pass3(k - 1, pass2(pass1(k - 1, cs[k])))])

\* the delimiters pushed after character i (0-based) of a string of
\* byteLen bytes
identity_delimiters(i, c, byteLen) ==
  <<i % 7 = 6 /\ i < byteLen - 1,
    c \in {EQUIV, LANGLE, RANGLE},
    i % 10 = 9 /\ i < byteLen - 1>>

identity_replacement_patterns ==
  << <<"cn" \o EQUIV, "CN_">>, <<"dc" \o EQUIV, "DC_">>, <<"ou" \o EQUIV, "OU_">>,
     <<"CN" \o EQUIV, "CN_">>, <<"DC" \o EQUIV, "DC_">>, <<"OU" \o EQUIV, "OU_">>,
     <<"cn=", "CN_">>, <<"dc=", "DC_">>, <<"ou=", "OU_">> >>

\* the characters with the largest count: max_by_key over a HashMap returns
\* one of them, which one depends on the map's iteration order
MostFrequentChars(str) ==
  LET cs == Chars(str)
      count(c) == Cardinality({i \in 1..Len(cs) : cs[i] = c})
      set == {cs[i] : i \in 1..Len(cs)}
  IN IF set = {} THEN {" "}
     ELSE {c \in set : \A d \in set : count(d) <= count(c)}

\* the custom hex encoding: "<hex of chunk>[<index>:<sum>]|" per 3-byte chunk
identity_hex_encode(bytes) ==
  LET n == Len(bytes)
      chunks == (n + 2) \div 3
      chunk(k) == SubSeq(bytes, 3 * k + 1, IF 3 * k + 3 > n THEN n ELSE 3 * k + 3)
      enc(k) ==
        LET ch == chunk(k) IN
        Concat([j \in 1..Len(ch) |-> Hex2(ch[j])])
          \o "[" \o Dec(k) \o ":" \o Dec(SumRange(ch, 1, Len(ch)) % 256) \o "]|"
  IN Concat([k \in 1..chunks |-> enc(k - 1)])

\* "S{}X{}R{}": wrapping sum, xor and position-weighted wrapping sum
identity_checksum_string(str) ==
  LET b == AsBytes(str)
      n == Len(b)
      weighted == [i \in 1..n |-> (b[i] * ((i - 1) % 256)) % 256]
  IN "S" \o Dec(SumRange(b, 1, n) % 256)
       \o "X" \o Dec(XorRange(b, 1, n))
       \o "R" \o Dec(SumRange(weighted, 1, n) % 256)

\* validate_identity_request up to the replacement patterns: the string and
\* the number of delimiters pushed
identity_delimit(synchronization_data) ==
  LET cs == identity_case_passes(Chars(synchronization_data))
      byteLen == Len(Concat(cs))
      dl(k) == identity_delimiters(k - 1, cs[k], byteLen)
      withDelims ==
        Concat([k \in 1..Len(cs) |->
                  cs[k] \o (IF dl(k)[1] THEN SECTION ELSE "")
                        \o (IF dl(k)[2] THEN PILCROW ELSE "")
                        \o (IF dl(k)[3] THEN DDAGGER ELSE "")])
  IN [processed_data |-> ReplaceAll(withDelims, identity_replacement_patterns),
      delimiter_count |->
        SumRange([k \in 1..Len(cs) |->
                    (IF dl(k)[1] THEN 1 ELSE 0) + (IF dl(k)[2] THEN 1 ELSE 0)
                      + (IF dl(k)[3] THEN 1 ELSE 0)], 1, Len(cs))]

\* the rest of validate_identity_request: length marker, hex encoding and
\* checksums, given the character max_by_key picked
identity_encode(d, most_frequent_char) ==
  LET length_marker == "[LEN:" \o Dec(Len(d.processed_data)) \o ":FREQ:"
                         \o most_frequent_char
                         \o ":DELIM:" \o Dec(d.delimiter_count) \o "]"
      encoded == identity_hex_encode(AsBytes(length_marker \o ":" \o d.processed_data))
  IN encoded \o "#" \o identity_checksum_string(encoded)

\* the results validate_identity_request can return
validate_identity_request(synchronization_data) ==
  LET d == identity_delimit(synchronization_data) IN
  {identity_encode(d, c) : c \in MostFrequentChars(d.processed_data)}

\* str::to_uppercase (the tokens of non-ASCII characters have no case)
ToUpper(str) ==
  LET cs == Chars(str) IN Concat([i \in 1..Len(cs) |-> UpperChar(cs[i])])

\* str::rsplit_once: the position of the last occurrence of sep, 0 for None
RFind(str, sep) ==
  LET occ == Occurrences(str, sep) IN
  IF occ = {} THEN 0 ELSE CHOOSE p \in occ : \A q \in occ : q <= p

\* str::trim_start_matches
RECURSIVE TrimStartMatches(_, _)
TrimStartMatches(str, pat) ==
  IF Len(pat) > 0 /\ StartsWith(str, pat)
  THEN TrimStartMatches(SubSeq(str, Len(pat) + 1, Len(str)), pat)
  ELSE str

\* the value of a string of decimal digits
RECURSIVE DecValue(_)
DecValue(str) ==
  IF Len(str) = 0 THEN 0
  ELSE 10 * DecValue(SubSeq(str, 1, Len(str) - 1))
         + (Find("0123456789", SubSeq(str, Len(str), Len(str))) - 1)

\* str::parse::<u8>().unwrap_or(0): an optional '+', then decimal digits, at
\* most 255
ParseU8OrZero(str) ==
  LET digits == IF StartsWith(str, "+") THEN SubSeq(str, 2, Len(str)) ELSE str
      ok == /\ Len(digits) > 0
            /\ \A i \in 1..Len(digits) : Contains("0123456789", SubSeq(digits, i, i))
  IN IF ok /\ DecValue(TrimStartMatches(digits, "0")) <= 255
           /\ Len(TrimStartMatches(digits, "0")) <= 3
     THEN DecValue(digits) ELSE 0

\* a hexadecimal digit's value, -1 for any other character
HexDigitValue(c) ==
  IF Contains(HexDigits, LowerChar(c)) /\ Len(c) = 1
  THEN Find(HexDigits, LowerChar(c)) - 1 ELSE 0 - 1

\* u8::from_str_radix(two bytes, 16): the value, -1 for Err
FromStrRadix16(two) ==
  LET a == SubSeq(two, 1, 1)
      b == SubSeq(two, 2, 2)
  IN IF a = "+" THEN HexDigitValue(b)
     ELSE IF HexDigitValue(a) >= 0 /\ HexDigitValue(b) >= 0
          THEN 16 * HexDigitValue(a) + HexDigitValue(b)
          ELSE 0 - 1

\* the hex decoding without the test for '#' and for the checksum field
identity_decode_part_unguarded(part) ==
  LET pair(k) == FromStrRadix16(SubSeq(part, 2 * k - 1, 2 * k))
  IN IF Len(part) % 2 = 0
     THEN Concat([k \in 1..(Len(part) \div 2) |->
                    IF pair(k) >= 0 THEN Chr(pair(k)) ELSE ""])
     ELSE ""

\* the hex decoding of one '|'-separated part of the stage-1 string
identity_decode_part(part) ==
  LET at == RFind(part, "#")
      data == SubSeq(part, 1, at - 1)
      checksum_info == SubSeq(part, at + 1, Len(part))
      bytes == AsBytes(data)
      calculated_checksum == SumRange(bytes, 1, Len(bytes)) % 256
      checksum_parts == Split(checksum_info, ",")
      expected_simple == ParseU8OrZero(TrimStartMatches(checksum_parts[1], "S"))
      pair(k) == FromStrRadix16(SubSeq(data, 2 * k - 1, 2 * k))
  IN IF /\ at > 0
        /\ Len(checksum_parts) >= 3
        /\ calculated_checksum = expected_simple
        /\ Len(data) % 2 = 0
     THEN Concat([k \in 1..(Len(data) \div 2) |->
                    IF pair(k) >= 0 THEN Chr(pair(k)) ELSE ""])
     ELSE ""

identity_decode(processed_data) ==
  LET parts == Split(processed_data, "|") IN
  Concat([k \in 1..Len(parts) |-> identity_decode_part(parts[k])])

\* one DN component, comp_index counted from 0
identity_component(component, comp_index) ==
  LET at == Find(component, "=")
      attr == SubSeq(component, 1, at - 1)
      value == SubSeq(component, at + 1, Len(component))
      lower == ToLower(attr)
      attr_analysis ==
        CASE lower = "cn" -> "COMMON_NAME"
          [] lower = "dc" -> "DOMAIN_COMPONENT"
          [] lower = "ou" -> "ORGANIZATIONAL_UNIT"
          [] lower = "o" -> "ORGANIZATION"
          [] lower = "l" -> "LOCALITY"
          [] lower = "st" -> "STATE"
          [] lower = "c" -> "COUNTRY"
          [] OTHER -> "UNKNOWN_ATTRIBUTE"
      value_analysis ==
        IF Contains(value, "(") /\ Contains(value, ")") THEN "COMPLEX_FILTER"
        ELSE IF Contains(value, "*") THEN "WILDCARD_VALUE"
        ELSE IF Contains(value, "|") THEN "UNION_OPERATION"
        ELSE "SIMPLE_VALUE"
  IN IF at > 0
     THEN ToUpper(attr) \o ":" \o value \o ":[" \o attr_analysis \o ":"
            \o value_analysis \o ":" \o Dec(comp_index) \o "];"
     ELSE component \o ":[UNKNOWN:NO_ATTR:" \o Dec(comp_index) \o "];"

identity_components(decoded) ==
  LET components == Split(decoded, ",") IN
  Concat([k \in 1..Len(components) |-> identity_component(components[k], k - 1)])

\* (from, to) rows of one layer: from[i] becomes to[i]
LetterPairs(from, to) == [i \in 1..Len(from) |-> <<SubSeq(from, i, i), SubSeq(to, i, i)>>]

DigitPairs == [i \in 1..10 |-> <<SubSeq("0123456789", i, i),
                                 SubDigit(SubSeq("0123456789", i, i))>>]

SpecialPairs ==
  << <<"=", EQUIV>>, <<"(", LANGLE>>, <<")", RANGLE>>, <<"|", TURNSTILE>>,
     <<"*", OTIMES>>, <<"&", WEDGE>>, <<"!", NOTSIGN>>, <<"@", OPLUS>>,
     <<"#", OTIMES>>, <<"$", OMINUS>> >>

\* the rows of the reversal layers of optimize_identity_flow
DigitPairsBack == [i \in 1..10 |-> <<DigitPairs[i][2], DigitPairs[i][1]>>]

SpecialPairsBack == [i \in 1..10 |-> <<SpecialPairs[i][2], SpecialPairs[i][1]>>]

substitution_layers ==
  LetterPairs("abcdefghijklmnopqrstuvwxyz", "xyzwvutsrqponmlkjihgfedcba")
    \o (SpecialPairs \o DigitPairs \o LetterPairs("abcdef", "xyzwvu"))
    \o (DigitPairs \o LetterPairs("abcdefghijklmnop", "xyzwvutsrqponmlk"))

\* position markers: after character i (0-based) when i % 5 = 4, and after
\* the three bracket-like characters
identity_mark(cs) ==
  Concat([k \in 1..Len(cs) |->
            cs[k]
              \o (IF (k - 1) % 5 = 4
                  THEN "[" \o Dec(k - 1) \o ":"
                         \o (IF (k - 1) % 10 = 9 THEN "MAJOR" ELSE "MINOR")
                         \o ":" \o cs[k] \o "]"
                  ELSE "")
              \o (IF cs[k] \in {EQUIV, LANGLE, RANGLE}
                  THEN "[SPECIAL:" \o Dec(k - 1) \o ":" \o cs[k] \o "]"
                  ELSE "")])

\* the orders in which the model iterates a HashMap's keys: a HashMap's
\* iteration order is unspecified, the model takes the keys by first
\* occurrence and in the reverse of that
HashOrders == {"forward", "reverse"}

\* the frequency report of the marked string, for one iteration order; a
\* character's entry stands where the character first occurs
identity_frequency(marked, order) ==
  LET cs == Chars(marked)
      n == Len(cs)
      isFirst(p) == \A q \in 1..(p - 1) : cs[q] # cs[p]
      firsts == {p \in 1..n : isFirst(p)}
      entry(p) ==
        LET positions == {i \in p..n : cs[i] = cs[p]}
            count == Cardinality(positions)
            last == CHOOSE i \in positions : \A j \in positions : j <= i
        IN IF count > 1
           THEN cs[p] \o Dec(count) \o "[" \o Dec(p - 1) \o ":" \o Dec(last - 1)
                  \o ":" \o Dec(count) \o "]"
           ELSE ""
      freq_str ==
        Concat([k \in 1..n |->
                  LET p == IF order = "forward" THEN k ELSE n + 1 - k IN
                  IF p \in firsts THEN entry(p) ELSE ""])
      unique == Cardinality(firsts)
  IN marked \o ":FREQ:" \o freq_str \o ":STATS:TOTAL:" \o Dec(n) \o ":AVG:"
       \o (IF unique = 0 THEN "NaN" ELSE Fixed2(n, unique))
       \o ":UNIQUE:" \o Dec(unique)

\* enhance_identity_context for one HashMap iteration order
enhance_identity_context_in(processed_data, order) ==
  LET transformed == identity_components(identity_decode(processed_data))
      substituted == ReplaceChars(Chars(transformed), substitution_layers)
  IN identity_frequency(identity_mark(substituted), order)

\* the results enhance_identity_context can return
enhance_identity_context(processed_data) ==
  {enhance_identity_context_in(processed_data, order) : order \in HashOrders}

reverse_substitution_layers ==
  (DigitPairsBack \o LetterPairs("abcdefghijklmnop", "xyzwvutsrqponmlk"))
    \o (SpecialPairsBack \o LetterPairs("abcdefghijklmnop", "xyzwvutsrqponmlk"))
    \o LetterPairs("xyzwvutsrqponmlkjihgfedcba", "abcdefghijklmnopqrstuvwxyz")

\* the marker loop of optimize_identity_flow: '[' opens a marker and clears
\* marker_content, ']' closes it and writes "[" marker_content "]", a
\* character inside a marker goes to marker_content, any other is kept
identity_clean_markers(cs) ==
  LET n == Len(cs)
      opens == {i \in 1..n : cs[i] = "["}
      closes == {i \in 1..n : cs[i] = "]"}
      \* the last '[' before i, 0 if there is none
      lastOpen(i) == IF \E p \in opens : p < i
                     THEN CHOOSE p \in opens : p < i /\ \A q \in opens : q < i => q <= p
                     ELSE 0
      lastClose(i) == IF \E p \in closes : p < i
                      THEN CHOOSE p \in closes : p < i /\ \A q \in closes : q < i => q <= p
                      ELSE 0
      in_marker(i) == lastOpen(i) > lastClose(i)
      \* marker_content when the ']' at i is read: what followed the last
      \* '[' up to the first ']' after it
      marker_content(i) ==
        LET p == lastOpen(i)
            e == CHOOSE c \in closes : c > p /\ \A d \in closes : d > p => c <= d
        IN IF p = 0 THEN "" ELSE ConcatRange(cs, p + 1, e - 1)
  IN Concat([i \in 1..n |->
               IF cs[i] = "[" THEN ""
               ELSE IF cs[i] = "]" THEN "[" \o marker_content(i) \o "]"
               ELSE IF in_marker(i) THEN ""
               ELSE cs[i]])

\* str.split('[').next(): what stands before the first '['
BeforeBracket(str) ==
  IF Contains(str, "[") THEN SubSeq(str, 1, Find(str, "[") - 1) ELSE str

\* one ';'-separated component of the cleaned string, as pushed to final_dn
identity_rebuild_component(component) ==
  LET parts == Split(component, ":")
      attr == parts[1]
      normalized_attr ==
        CASE attr = "CN" -> "cn"
          [] attr = "DC" -> "dc"
          [] attr = "OU" -> "ou"
          [] attr = "O" -> "o"
          [] attr = "L" -> "l"
          [] attr = "ST" -> "st"
          [] attr = "C" -> "c"
          [] OTHER -> attr
      cleaned_value == BeforeBracket(parts[2])
      cleaned_component == BeforeBracket(component)
  IN IF Contains(component, ":")
     THEN (IF cleaned_value # "" /\ normalized_attr # ""
           THEN normalized_attr \o "=" \o cleaned_value \o "," ELSE "")
     ELSE IF component # "" /\ cleaned_component # ""
          THEN cleaned_component \o "," ELSE ""

restoration_patterns ==
  << <<"CN_", "cn=">>, <<"DC_", "dc=">>, <<"OU_", "ou=">>, <<"O_", "o=">>,
     <<"L_", "l=">>, <<"ST_", "st=">>, <<"C_", "c=">> >>

artifacts_to_remove ==
  << <<SECTION, "">>, <<PILCROW, "">>, <<DDAGGER, "">>, <<"FREQ:", "">>,
     <<"STATS:", "">> >>

\* the payload extraction at the end of optimize_identity_flow
identity_extract_payload(final_dn) ==
  LET original_payload == SubSeq(final_dn, Find(final_dn, ":") + 1, Len(final_dn))
      cleaned_payload == BeforeBracket(original_payload)
      has_ldap_patterns ==
        /\ Contains(cleaned_payload, "(")
        /\ Contains(cleaned_payload, ")")
        /\ (Contains(cleaned_payload, "|") \/ Contains(cleaned_payload, "*"))
  IN IF Contains(final_dn, "[LEN:") /\ Contains(final_dn, ":")
     THEN (IF has_ldap_patterns THEN cleaned_payload ELSE original_payload)
     ELSE final_dn

\* the components of the cleaned string put together again, the trailing
\* comma popped
identity_rebuild(cleaned) ==
  LET components == Split(cleaned, ";")
      joined == Concat([k \in 1..Len(components) |->
                          identity_rebuild_component(components[k])])
  IN IF EndsWith(joined, ",") THEN SubSeq(joined, 1, Len(joined) - 1) ELSE joined

optimize_identity_flow(enriched_data) ==
  Then(ReplaceChars(Chars(enriched_data), reverse_substitution_layers), LAMBDA reversed :
  Then(identity_clean_markers(reversed), LAMBDA cleaned :
  Then(identity_rebuild(cleaned), LAMBDA final_dn :
  Then(ReplaceAll(final_dn, restoration_patterns), LAMBDA restored :
  Then(ReplaceAll(restored, artifacts_to_remove), LAMBDA removed :
  identity_extract_payload(removed))))))

(***************************************************************************)
(* lib.rs: the values of the store.                                        *)
(***************************************************************************)
\* Option<T>
None == <<>>
Some(v) == <<v>>

\* TodoItem values passed to add_todo
TodoInputs ==
  {[title |-> "buy milk", notes |-> "", assigned_to |-> "ann", completed |-> FALSE],
   [title |-> "call bob", notes |-> "asap", assigned_to |-> "bob", completed |-> TRUE]}

\* UpdateTodoItem values passed to update_todo
UpdateInputs ==
  {[title |-> None, notes |-> None, assigned_to |-> None, completed |-> None],
   [title |-> Some("walk dog"), notes |-> None, assigned_to |-> None,
    completed |-> None],
   [title |-> None, notes |-> Some("later"), assigned_to |-> None,
    completed |-> Some(TRUE)],
   [title |-> Some("walk dog"), notes |-> Some("later"), assigned_to |-> Some("cy"),
    completed |-> Some(FALSE)]}

\* Pagination values passed to get_todos
Paginations ==
  {[offset |-> None, limit |-> None],
   [offset |-> Some(1), limit |-> Some(1)],
   [offset |-> Some(USIZE_MAX), limit |-> None],
   [offset |-> None, limit |-> Some(0)]}

\* the ids passed to get_todo, remove_todo and update_todo
Ids == {0, 1, USIZE_MAX}

\* IdentifyableTodoItem::new
IdentifyableTodoItem(id, item) == [id |-> id, item |-> item]

\* HashMap::insert and HashMap::remove on a map kept as a function
MapInsert(map, k, v) == [j \in (DOMAIN map) \cup {k} |-> IF j = k THEN v ELSE map[j]]

MapRemove(map, k) == [j \in (DOMAIN map) \ {k} |-> map[j]]

EmptyMap == [j \in {} |-> 0]

MaxOf(S) == CHOOSE j \in S : \A k \in S : k <= j

\* the maps passed to TodoStore::from_hashmap
SampleItem == CHOOSE item \in TodoInputs : item.completed

HashMaps ==
  {EmptyMap}
    \cup {MapInsert(EmptyMap, k, IdentifyableTodoItem(k, SampleItem)) :
            k \in {0, USIZE_MAX - 1, USIZE_MAX}}
    \cup {MapInsert(EmptyMap, 1, IdentifyableTodoItem(0, SampleItem))}
    \cup {MapInsert(MapInsert(EmptyMap, 0, IdentifyableTodoItem(0, SampleItem)),
                     USIZE_MAX, IdentifyableTodoItem(USIZE_MAX, SampleItem))}

\* from_hashmap: keys().max().map(|v| v + 1).unwrap_or(0); v + 1 overflows when
\* the largest key is usize::MAX, which panics in a build with overflow
\* checks and wraps in a build without
from_hashmap_overflows(map) == DOMAIN map # {} /\ MaxOf(DOMAIN map) = USIZE_MAX

from_hashmap_seed(map) ==
  IF DOMAIN map = {} THEN 0 ELSE (MaxOf(DOMAIN map) + 1) % USIZE_MOD

\* the RandomState of a HashMap: the keys of its hasher, drawn once when the
\* map is built.  The hash of a key places its entry in the table.
FirstRandomState == [mul |-> 1, add |-> 0]

RandomStates ==
  {FirstRandomState,
   [mul |-> USIZE_MAX, add |-> USIZE_MAX],
   [mul |-> 5, add |-> 3]}

Hash(state, k) == (state.mul * k + state.add) % USIZE_MOD

(***************************************************************************)
(* The seven entry points add_todo calls, in call order, and their         *)
(* sources (the *_handler.rs files and data_processor.rs).                 *)
(***************************************************************************)
PipelineNames ==
  <<"path", "command", "sql", "redirect", "xpath", "integration", "directory">>

\* [0u8; 1024]: the receive buffer of every socket-backed source
BUFFER_SIZE == 1024

\* one byte that is not valid UTF-8, and the zero byte of the fresh buffer
INVALID_BYTE == "\r"
NUL == "\f"

\* how an entry point gets its data on a platform
SourceKind(p, os) ==
  CASE p = "path" -> "tcp"
    [] p \in {"xpath", "integration", "directory"} -> "udp"
    [] p \in {"command", "sql"} -> IF os = "windows" THEN "winsock" ELSE "literal"
    [] p = "redirect" -> IF os = "windows" THEN "wsarecvfrom" ELSE "literal"

\* the fixed strings of the builds that are not for Windows
LiteralSource(p) ==
  CASE p = "command" -> "test_command"
    [] p = "sql" -> "test_sql_command"
    [] p = "redirect" -> "test_redirect_command"

\* n copies of str
RECURSIVE Repeat(_, _)
Repeat(str, n) ==
  IF n = 0 THEN ""
  ELSE IF n = 1 THEN str
  ELSE Repeat(str, n \div 2) \o Repeat(str, n - (n \div 2))

\* a message longer than the receive buffer
LongMessage == Repeat("/srv/data", 120)

\* the messages a peer sends to an entry point's socket
Messages(p) ==
  CASE p = "path" -> {"notes.txt", "../xpath/unsafe" \o INVALID_BYTE, LongMessage}
    [] p = "command" -> {"ls -la", "make && make install || true"}
    [] p = "sql" -> {"SELECT * FROM todos", "DROP TABLE t -- SAFETY_CHECK"}
    [] p = "redirect" -> {"https://example.com/todo/list?urgent=1", "//evil.test",
                          "https://evil.test/login#"}
    [] p = "xpath" -> {"//todo[@id='1']", "/a|/b -- SAFETY_CHECK"}
    [] p = "integration" -> {"key: value", "stream/x|parallel=1 overflow"}
    [] p = "directory" -> {"cn=admin,dc=example,dc=com", "(uid=*)"}

\* the network of a run: "none" when no socket can be opened or read, "any"
\* when every outcome is possible and the peers send anything, the empty
\* datagram included, "silent" when the sockets open and no peer ever sends
Traffics == {"none", "any", "silent"}

Sent(p, load) == IF load = "any" THEN Messages(p) \cup {""} ELSE {}

\* whether the receive call of a source comes back at all: stream.read and
\* socket.recv have no timeout and wait until a peer sends
Blocks(kind, load) == load = "silent" /\ kind \in {"tcp", "udp"}

\* a receive into a buffer that grows with the message
ReceivedUnbounded(message) == message

\* what recv stores in the buffer and reports: at most BUFFER_SIZE bytes
Received(message) ==
  SubSeq(message, 1, IF Len(message) > BUFFER_SIZE THEN BUFFER_SIZE ELSE Len(message))

\* the whole buffer after a receive of the given bytes into a zeroed buffer
WholeBuffer(bytes) == bytes \o Repeat(NUL, BUFFER_SIZE - Len(bytes))

\* String::from_utf8_lossy: every invalid byte becomes U+FFFD
from_utf8_lossy(bytes) == Replace(bytes, INVALID_BYTE, REPLACEMENT_CHARACTER)

\* the Err strings of the handlers
OpenError(p) ==
  IF p = "path" THEN "Failed to connect to TCP stream" ELSE "Failed to bind UDP socket"

ReceiveError(p) ==
  CASE p = "path" -> "Failed to read from TCP stream"
    [] p = "xpath" -> "Failed to receive todo data from UDP socket"
    [] p = "integration" -> "Failed to receive integration data from UDP socket"
    [] p = "directory" -> "Failed to receive synchronization data from UDP socket"

NoDataError(p) ==
  CASE p = "path" -> "No path data received"
    [] p = "command" -> "No command data received"
    [] p = "sql" -> "No SQL data received"
    [] p = "redirect" -> "No redirect data received"
    [] p = "xpath" -> "No todo item data received"
    [] p = "integration" -> "No integration data received"
    [] p = "directory" -> "No synchronization data received"

EngineErrorPrefix(p) ==
  CASE p = "path" -> "Path engine error: "
    [] p = "command" -> "Command engine error: "
    [] p = "sql" -> "SQL engine error: "
    [] p = "redirect" -> "Redirect engine error: "
    [] p = "xpath" -> "Todo engine error: "
    [] p = "integration" -> "Integration engine error: "
    [] p = "directory" -> "Synchronization engine error: "

\* Result<String, String>
Ok(v) == [ok |-> TRUE, value |-> v]
Err(e) == [ok |-> FALSE, value |-> e]

\* a match whose Err arm drops the engine's reason
HandlerResultHidingReason(p, engine_result) ==
  IF engine_result.ok THEN Ok(engine_result.value)
  ELSE Err(EngineErrorPrefix(p))

\* the match on the engine's result at the end of every handler
HandlerResult(p, engine_result) ==
  IF engine_result.ok THEN Ok(engine_result.value)
  ELSE Err(EngineErrorPrefix(p) \o engine_result.value)

(***************************************************************************)
(* The engines: stages and sinks of each pipeline.                         *)
(***************************************************************************)
\* the results the first stage can return
Stage1(p, input) ==
  CASE p = "path" -> {parse_path_request(input)}
    [] p = "command" -> {parse_command_request(input)}
    [] p = "sql" -> {parse_todo_sql_request(input)}
    [] p = "redirect" -> {parse_todo_redirect_request(input)}
    [] p = "xpath" -> {parse_todo_request(input)}
    [] p = "integration" -> {process_data_stream(input)}
    [] p = "directory" -> validate_identity_request(input)

\* the results the second stage can return when the clock reads now
Stage2(p, processed_data, now, os) ==
  CASE p = "path" -> {enrich_path_context(processed_data, now)}
    [] p = "command" -> {enrich_command_context(processed_data, now, os)}
    [] p = "sql" -> {sql_enrich_todo_context(processed_data, now)}
    [] p = "redirect" -> {enrich_todo_redirect_context(processed_data, now)}
    [] p = "xpath" -> {xpath_enrich_todo_context(processed_data, now)}
    [] p = "integration" -> {enhance_data_processing(processed_data, now)}
    [] p = "directory" -> enhance_identity_context(processed_data)

Stage3(p, enriched_data) ==
  CASE p = "path" -> prepare_path_execution(enriched_data)
    [] p = "command" -> prepare_command_execution(enriched_data)
    [] p = "sql" -> sql_prepare_todo_execution(enriched_data)
    [] p = "redirect" -> prepare_todo_redirect_execution(enriched_data)
    [] p = "xpath" -> xpath_prepare_todo_execution(enriched_data)
    [] p = "integration" -> optimize_data_flow(enriched_data)
    [] p = "directory" -> optimize_identity_flow(enriched_data)

\* the status strings of the sinks: String::len is the length in bytes
execute_first_path_operation(data) ==
  "First path operation completed: " \o Dec(Len(data)) \o " bytes"

execute_second_path_operation(data) ==
  "Second path operation completed: " \o Dec(Len(data)) \o " bytes"

execute_first_command_operation(data) ==
  "First command operation completed: " \o Dec(Len(data)) \o " bytes"

execute_second_command_operation(data) ==
  "Second command operation completed: " \o Dec(Len(data)) \o " bytes"

execute_first_todo_operation(data) ==
  "First todo SQL operation completed: " \o Dec(Len(data)) \o " bytes"

execute_second_todo_operation(data) ==
  "Second todo SQL operation completed: " \o Dec(Len(data)) \o " bytes"

execute_first_redirect_operation(data) ==
  "First todo redirect operation completed: " \o Dec(Len(data)) \o " bytes"

execute_second_redirect_operation(data) ==
  "Second todo redirect operation completed: " \o Dec(Len(data)) \o " bytes"

execute_primary_task_validation(data) ==
  "First task validation operation completed: " \o Dec(Len(data)) \o " bytes"

execute_secondary_task_validation(data) ==
  "Second task validation operation completed: " \o Dec(Len(data)) \o " bytes"

execute_tertiary_task_validation(data) ==
  "Third task validation operation completed: " \o Dec(Len(data)) \o " bytes"

execute_primary_connectivity(data) ==
  "First configuration operation completed: " \o Dec(Len(data)) \o " bytes"

execute_secondary_connectivity(data) ==
  "Second configuration operation completed: " \o Dec(Len(data)) \o " bytes"

execute_tertiary_connectivity(data) ==
  "Third configuration operation completed: " \o Dec(Len(data)) \o " bytes"

execute_primary_identity_operation(data) ==
  "First identity operation completed: " \o Dec(Len(data)) \o " bytes"

execute_secondary_identity_operation(data) ==
  "Second identity operation completed: " \o Dec(Len(data)) \o " bytes"

(***************************************************************************)
(* str::parse::<warp::http::Uri>() as the redirect sinks call it: the       *)
(* parser of the http crate, byte by byte.  In the strings of the model the *)
(* characters "~" and "^" open the token of a character that is not ASCII,  *)
(* and so stand for bytes the parser refuses.                               *)
(***************************************************************************)
CharSet(str) == {SubSeq(str, i, i) : i \in 1..Len(str)}

AlphaNum == CharSet(UpperLetters \o LowerLetters \o "0123456789")

\* SCHEME_CHARS, ':' apart
SchemeChars == AlphaNum \cup CharSet("+-.")

\* URI_CHARS
UriChars == AlphaNum \cup CharSet("!#$&'()*+,-./:;=?@[]_")

\* the bytes PathAndQuery::from_shared lets pass in a path
PathChars == AlphaNum \cup CharSet("!$%&'()*+,-./:;=@[\\]_|\"{}")

\* the bytes PathAndQuery::from_shared lets pass in a query (the backquote,
\* which no string of the model holds, left out)
QueryChars == AlphaNum \cup CharSet("!$%&'()*+,-./:;=?@[\\]_{|}")

MAX_URI_LEN == 65534
MAX_SCHEME_LEN == 64

\* the first position at or after from whose byte is in S, Len(b) + 1 if none
FirstIn(b, from, S) ==
  IF \E i \in from..Len(b) : b[i] \in S
    THEN MinOf({i \in from..Len(b) : b[i] \in S})
    ELSE Len(b) + 1

EqIgnoreAsciiCase(a, b) == ToLower(a) = ToLower(b)

\* Scheme2::parse: the length of the scheme, 0 for Scheme2::None, -1 for Err
Scheme2Parse(str, b) ==
  IF Len(str) >= 7 /\ EqIgnoreAsciiCase(SubSeq(str, 1, 7), "http://") THEN 4
  ELSE IF Len(str) >= 8 /\ EqIgnoreAsciiCase(SubSeq(str, 1, 8), "https://") THEN 5
  ELSE IF Len(str) > 3
    THEN LET stop == FirstIn(b, 1, {c \in CharSet(str) : c \notin SchemeChars})
         IN IF stop > Len(str) \/ b[stop] # ":" THEN 0
            ELSE IF Len(str) < stop + 2 THEN 0
            ELSE IF SubSeq(str, stop + 1, stop + 2) # "//" THEN 0
            ELSE IF stop - 1 > MAX_SCHEME_LEN THEN -1
            ELSE stop - 1
    ELSE 0

\* Authority::parse on the bytes at and after from: the position after the
\* authority, 0 for Err
AuthorityParse(b, from) ==
  LET end == FirstIn(b, from, {"/", "?", "#"})
      At(c) == {i \in from..(end - 1) : b[i] = c}
      last_reset == IF At("]") \cup At("@") = {} THEN from - 1
                    ELSE CHOOSE i \in At("]") \cup At("@") :
                           \A j \in At("]") \cup At("@") : j <= i
      colon_cnt == Cardinality({i \in At(":") : i > last_reset})
      has_percent == \E i \in At("%") : i > last_reset
      first_open == IF At("[") = {} THEN end ELSE MinOf(At("["))
      refused ==
        \/ \E i \in from..(end - 1) : b[i] \notin UriChars /\ b[i] # "%"
        \/ Cardinality(At("[")) > 1
        \/ Cardinality(At("]")) > 1
        \/ \E i \in At("%") : i < first_open /\ At("[") # {}
                                /\ \A j \in At("]") \cup At("@") : j < i \/ j > first_open
        \/ (At("[") = {}) # (At("]") = {})
        \/ colon_cnt > 1
        \/ (end - 1) \in At("@")
        \/ has_percent
  IN IF refused THEN 0 ELSE end

\* PathAndQuery::from_shared on the bytes at and after from: the position after
\* the path and query (where the fragment, which is cut off unread, begins),
\* 0 for Err
PathAndQueryParse(b, from) ==
  LET mark == FirstIn(b, from, {"?", "#"})
      query == mark <= Len(b) /\ b[mark] = "?"
      fragment == IF query THEN FirstIn(b, mark + 1, {"#"}) ELSE mark
  IN IF /\ \A i \in from..(mark - 1) : b[i] \in PathChars
        /\ query => \A i \in (mark + 1)..(fragment - 1) : b[i] \in QueryChars
       THEN fragment
       ELSE 0

\* Uri::from_shared: Ok with the bytes the Uri keeps, or Err
UriFromStr(str) ==
  LET b == Collect(Bytes(str))
      refusal == [ok |-> FALSE, uri |-> ""]
      Kept(end) == IF end = 0 THEN refusal ELSE [ok |-> TRUE, uri |-> SubSeq(str, 1, end - 1)]
  IN IF Len(str) > MAX_URI_LEN \/ Len(str) = 0 THEN refusal
     ELSE IF Len(str) = 1 /\ str \in {"/", "*"} THEN [ok |-> TRUE, uri |-> str]
     ELSE IF Len(str) > 1 /\ b[1] = "/" THEN Kept(PathAndQueryParse(b, 1))
     ELSE LET scheme == Scheme2Parse(str, b)
              from == IF scheme > 0 THEN scheme + 4 ELSE 1
              authority_end == IF scheme < 0 THEN 0 ELSE AuthorityParse(b, from)
          IN IF authority_end = 0 THEN refusal
             ELSE IF scheme = 0
               THEN IF authority_end # Len(str) + 1 THEN refusal
                    ELSE [ok |-> TRUE, uri |-> str]
             ELSE IF authority_end = from THEN refusal
             ELSE Kept(PathAndQueryParse(b, authority_end))

\* "let tainted_uri = data.to_string()": what a redirect sink parses
tainted_uri(data) == data

\* the strings the n-th sink of an engine hands to the URI parser
UrisParsed(p, n, data) == IF p = "redirect" THEN <<tainted_uri(data)>> ELSE <<>>

\* a redirect built whatever the parser said
RedirectsBuiltUnparsed(p, n, data) ==
  IF p = "redirect" THEN <<[sink |-> n, uri |-> tainted_uri(data)]>> ELSE <<>>

\* "if let Ok(uri) = tainted_uri.parse()": the redirects the n-th sink of an
\* engine constructs, Redirect::with_status_code(FOUND, uri) in the first
\* redirect sink and warp::redirect(uri) in the second
RedirectsBuilt(p, n, data) ==
  IF p = "redirect" /\ UriFromStr(tainted_uri(data)).ok
    THEN <<[sink |-> n, uri |-> UriFromStr(tainted_uri(data)).uri]>>
    ELSE <<>>

\* the number of sinks of an engine
SinkCount(p) == IF p \in {"xpath", "integration"} THEN 3 ELSE 2

\* the status the n-th sink of an engine returns when it returns normally
SinkStatus(p, n, data) ==
  CASE p = "path" /\ n = 1 -> execute_first_path_operation(data)
    [] p = "path" /\ n = 2 -> execute_second_path_operation(data)
    [] p = "command" /\ n = 1 -> execute_first_command_operation(data)
    [] p = "command" /\ n = 2 -> execute_second_command_operation(data)
    [] p = "sql" /\ n = 1 -> execute_first_todo_operation(data)
    [] p = "sql" /\ n = 2 -> execute_second_todo_operation(data)
    [] p = "redirect" /\ n = 1 -> execute_first_redirect_operation(data)
    [] p = "redirect" /\ n = 2 -> execute_second_redirect_operation(data)
    [] p = "xpath" /\ n = 1 -> execute_primary_task_validation(data)
    [] p = "xpath" /\ n = 2 -> execute_secondary_task_validation(data)
    [] p = "xpath" /\ n = 3 -> execute_tertiary_task_validation(data)
    [] p = "integration" /\ n = 1 -> execute_primary_connectivity(data)
    [] p = "integration" /\ n = 2 -> execute_secondary_connectivity(data)
    [] p = "integration" /\ n = 3 -> execute_tertiary_connectivity(data)
    [] p = "directory" /\ n = 1 -> execute_primary_identity_operation(data)
    [] p = "directory" /\ n = 2 -> execute_secondary_identity_operation(data)

\* what can happen inside the n-th sink of an engine besides its return:
\*   "panic"   an unwrap() on an Err (Document::new, LdapClient connect,
\*             LdapConn::new)
\*   "abort"   the allocator or the kernel ends the process
\*   "corrupt" the call returns, its String is no longer what format! wrote
\* CString::from_raw on the buffer of a live String frees that buffer a
\* second time when the String is dropped: undefined behaviour
SinkOutcomes(p, n) ==
  {"return"}
    \cup (IF p = "xpath" /\ n = 2 THEN {"panic"} ELSE {})
    \cup (IF p = "directory" THEN {"panic"} ELSE {})
    \cup (IF p = "integration" /\ n = 3 THEN {"abort", "corrupt"} ELSE {})

\* a String whose buffer was freed under it
CorruptStatuses == {""}

\* the Ok value of an engine: its statuses in its summary line
EngineSummary(p, statuses) ==
  (CASE p = "path" -> "Path operations completed: "
     [] p = "command" -> "Command operations completed: "
     [] p = "sql" -> "Todo SQL operations completed: "
     [] p = "redirect" -> "Todo redirect operations completed: "
     [] p = "xpath" -> "Todo item operations completed: "
     [] p = "integration" -> "Integration operations completed: "
     [] p = "directory" -> "Identity operations completed: ")
    \o Join(statuses, ", ")

(***************************************************************************)
(* The state: one TodoStore, the call in progress on it, and the position  *)
(* of add_todo inside the entry point it is running.                       *)
(***************************************************************************)
VARIABLES
  platform,        \* cfg(target_os) of the build
  hash_builder,    \* the RandomState of TodoStore.store
  traffic,         \* what the peers of this run send
  origin,          \* how the store was built: "default" or "from_hashmap"
  store,           \* TodoStore.store
  id_generator,    \* TodoStore.id_generator
  pc,              \* "idle", "add_todo", "panicked" or "aborted"
  ret,             \* the call that returned last, its arguments and its value
  issued,          \* the ids add_todo returned, in call order
  adds,            \* add_todo calls begun
  calls,           \* get_todo, remove_todo and update_todo calls made
  new_item,        \* add_todo's new_item
  pipeline,        \* index in PipelineNames of the entry point at hand, 0 if none
  step,            \* position inside that entry point
  payload,         \* the bytes the handler takes from its buffer
  input,           \* the String the handler passes to its engine
  processed_data,  \* result of the first stage
  enriched_data,   \* result of the second stage
  final_data,      \* result of the third stage
  statuses,        \* what the sinks returned so far
  sink_args,       \* what the sinks were passed so far
  parsed,          \* what the sinks handed to the URI parser so far
  redirects,       \* the redirects the sinks constructed so far
  result,          \* the Result the entry point returned
  invoked,         \* the entry points this add_todo has called, in order
  log,             \* the steps this entry point has taken, in order
  bound,           \* the UDP endpoints held: <<entry point, holder>> pairs
  peer             \* a call of the same UDP entry point on another thread

storeVars == <<origin, store, id_generator, ret, issued, adds, calls, new_item>>
sinkVars == <<parsed, redirects>>
engineVars == <<payload, input, processed_data, enriched_data, final_data,
                statuses, sink_args, sinkVars, result, log>>
envVars == <<platform, traffic, hash_builder>>
udpVars == <<bound, peer>>
vars == <<envVars, udpVars, pc, pipeline, step, invoked, storeVars, engineVars>>

\* the call on another thread: where it is, and the Err its source returned
\* ("" when it returned none)
PeerAt(at, source_error) == [at |-> at, source_error |-> source_error]
NoPeer == PeerAt("absent", "")

NoReturn == [op |-> "none", id |-> 0, arg |-> None, value |-> None]
NoItem == IdentifyableTodoItem(0, CHOOSE item \in TodoInputs : TRUE)
NoResult == Err("")

\* the locals of an entry point before it runs
EngineReset ==
  /\ payload' = ""
  /\ input' = ""
  /\ processed_data' = ""
  /\ enriched_data' = ""
  /\ final_data' = ""
  /\ statuses' = <<>>
  /\ sink_args' = <<>>
  /\ parsed' = <<>>
  /\ redirects' = <<>>
  /\ result' = NoResult
  /\ log' = <<>>

\* TodoStore::default() or TodoStore::from_hashmap(map)
InitStore ==
  \/ /\ origin = "default"
     /\ store = EmptyMap
     /\ id_generator = 0
     /\ pc = "idle"
  \/ /\ origin = "from_hashmap"
     /\ store \in HashMaps
     /\ id_generator = from_hashmap_seed(store)
     /\ pc \in (IF from_hashmap_overflows(store) THEN {"idle", "panicked"}
                ELSE {"idle"})

\* no call made yet
InitCalls ==
  /\ ret = NoReturn
  /\ issued = <<>>
  /\ adds = 0
  /\ calls = 0
  /\ new_item = NoItem
  /\ pipeline = 0
  /\ step = "none"
  /\ invoked = <<>>
  /\ payload = ""
  /\ input = ""
  /\ processed_data = ""
  /\ enriched_data = ""
  /\ final_data = ""
  /\ statuses = <<>>
  /\ sink_args = <<>>
  /\ parsed = <<>>
  /\ redirects = <<>>
  /\ result = NoResult
  /\ log = <<>>

Init ==
  /\ platform \in Platforms
  /\ hash_builder \in RandomStates
  /\ traffic \in Traffics
  /\ bound = {}
  /\ peer = NoPeer
  /\ InitStore
  /\ InitCalls

(***************************************************************************)
(* lib.rs: the operations of the store.                                    *)
(***************************************************************************)
\* a counter that is read and not advanced
fetch_add_stuck(counter) == counter

\* AtomicUsize::fetch_add(1): the addition wraps around on overflow
fetch_add(counter) == (counter + 1) % USIZE_MOD

\* an add_todo that calls its entry points before it inserts the item
AddTodoBeginBeforeInsert(todo) ==
  /\ pc = "idle"
  /\ adds < MaxAdds
  /\ id_generator' = fetch_add(id_generator)
  /\ new_item' = IdentifyableTodoItem(id_generator, todo)
  /\ store' = store
  /\ pc' = "add_todo"
  /\ pipeline' = 1
  /\ step' = "call"
  /\ invoked' = <<>>
  /\ adds' = adds + 1
  /\ ret' = NoReturn
  /\ EngineReset
  /\ UNCHANGED <<envVars, udpVars, origin, issued, calls>>

\* add_todo up to the first entry point: the id is taken, the item inserted
AddTodoBegin(todo) ==
  /\ pc = "idle"
  /\ adds < MaxAdds
  /\ id_generator' = fetch_add(id_generator)
  /\ new_item' = IdentifyableTodoItem(id_generator, todo)
  /\ store' = MapInsert(store, id_generator, IdentifyableTodoItem(id_generator, todo))
  /\ pc' = "add_todo"
  /\ pipeline' = 1
  /\ step' = "call"
  /\ invoked' = <<>>
  /\ adds' = adds + 1
  /\ ret' = NoReturn
  /\ EngineReset
  /\ UNCHANGED <<envVars, udpVars, origin, issued, calls>>

\* get_todo
GetTodo(id) ==
  /\ pc = "idle"
  /\ calls < MaxCalls
  /\ calls' = calls + 1
  /\ ret' = [op |-> "get_todo", id |-> id, arg |-> None,
             value |-> IF id \in DOMAIN store THEN Some(store[id]) ELSE None]
  /\ UNCHANGED <<envVars, udpVars, origin, store, id_generator, pc, issued, adds, new_item,
                 pipeline, step, invoked, engineVars>>

\* Option::unwrap_or
unwrap_or(option, default) == IF option = None THEN default ELSE option[1]

\* Iterator::skip and Iterator::take on a sequence
Skip(seq, n) == SubSeq(seq, n + 1, Len(seq))
Take(seq, n) == SubSeq(seq, 1, IF n < Len(seq) THEN n ELSE Len(seq))

\* the values of the entries of a map, in the given order of its keys
Values(map, order) == [i \in DOMAIN order |-> map[order[i]]]

\* HashMap::values(): the entries in table order, which is the same on every
\* pass over a map that was not modified in between
IterationOrder(map, state) ==
  LET Before(k) == {j \in DOMAIN map : Hash(state, j) < Hash(state, k)}
  IN [i \in 1..Cardinality(DOMAIN map) |->
        CHOOSE k \in DOMAIN map : Cardinality(Before(k)) = i - 1]

\* a pass whose order turns around with the offset
PageKeysReordered(map, state, pagination) ==
  LET order == IterationOrder(map, state)
      offset == unwrap_or(pagination.offset, 0)
      turned == IF offset % 2 = 0 THEN order
                ELSE [i \in 1..Len(order) |-> order[Len(order) + 1 - i]]
  IN Take(Skip(turned, offset), unwrap_or(pagination.limit, USIZE_MAX))

\* values().skip(offset).take(limit): the keys of the entries get_todos yields
PageKeys(map, state, pagination) ==
  Take(Skip(IterationOrder(map, state), unwrap_or(pagination.offset, 0)),
       unwrap_or(pagination.limit, USIZE_MAX))

\* .cloned().collect(): the Vec get_todos returns
get_todos(map, state, pagination) == Values(map, PageKeys(map, state, pagination))

\* get_todos as it would be with the limit taken before the offset is skipped
GetTodosLimitFirst(pagination) ==
  /\ pc = "idle"
  /\ calls < MaxCalls
  /\ calls' = calls + 1
  /\ ret' = [op |-> "get_todos", id |-> 0, arg |-> pagination,
             value |-> Skip(Take(Values(store, IterationOrder(store, hash_builder)),
                                 unwrap_or(pagination.limit, USIZE_MAX)),
                            unwrap_or(pagination.offset, 0))]
  /\ UNCHANGED <<envVars, udpVars, origin, store, id_generator, pc, issued, adds, new_item,
                 pipeline, step, invoked, engineVars>>

\* get_todos: values().skip(offset).take(limit).cloned().collect()
GetTodos(pagination) ==
  /\ pc = "idle"
  /\ calls < MaxCalls
  /\ calls' = calls + 1
  /\ ret' = [op |-> "get_todos", id |-> 0, arg |-> pagination,
             value |-> get_todos(store, hash_builder, pagination)]
  /\ UNCHANGED <<envVars, udpVars, origin, store, id_generator, pc, issued, adds, new_item,
                 pipeline, step, invoked, engineVars>>

\* remove_todo as it would be if it handed the freed id back to the generator
RemoveTodoReleasingId(id) ==
  /\ pc = "idle"
  /\ calls < MaxCalls
  /\ calls' = calls + 1
  /\ ret' = [op |-> "remove_todo", id |-> id, arg |-> None,
             value |-> IF id \in DOMAIN store THEN Some(store[id]) ELSE None]
  /\ store' = MapRemove(store, id)
  /\ id_generator' = IF id \in DOMAIN store THEN id ELSE id_generator
  /\ UNCHANGED <<envVars, udpVars, origin, pc, issued, adds, new_item,
                 pipeline, step, invoked, engineVars>>

\* remove_todo
RemoveTodo(id) ==
  /\ pc = "idle"
  /\ calls < MaxCalls
  /\ calls' = calls + 1
  /\ ret' = [op |-> "remove_todo", id |-> id, arg |-> None,
             value |-> IF id \in DOMAIN store THEN Some(store[id]) ELSE None]
  /\ store' = MapRemove(store, id)
  /\ UNCHANGED <<envVars, udpVars, origin, id_generator, pc, issued, adds, new_item,
                 pipeline, step, invoked, engineVars>>

\* the body of update_todo's "if let Some(item)": each field the patch has
\* replaces the item's
PatchField(patch_field, old) == IF patch_field = None THEN old ELSE patch_field[1]

\* the body as it would be if it assigned every field of the patch, absent
\* ones as their default
apply_update_unconditional(item, todo) ==
  [id |-> item.id,
   item |-> [title |-> PatchField(todo.title, ""),
             notes |-> PatchField(todo.notes, ""),
             assigned_to |-> PatchField(todo.assigned_to, ""),
             completed |-> PatchField(todo.completed, FALSE)]]

apply_update(item, todo) ==
  [id |-> item.id,
   item |-> [title |-> PatchField(todo.title, item.item.title),
             notes |-> PatchField(todo.notes, item.item.notes),
             assigned_to |-> PatchField(todo.assigned_to, item.item.assigned_to),
             completed |-> PatchField(todo.completed, item.item.completed)]]

\* update_todo as it would be if it inserted the patch under an absent id
UpdateTodoUpsert(id, todo) ==
  /\ pc = "idle"
  /\ calls < MaxCalls
  /\ calls' = calls + 1
  /\ store' = MapInsert(store, id,
                        apply_update(IF id \in DOMAIN store THEN store[id]
                                     ELSE IdentifyableTodoItem(id, SampleItem), todo))
  /\ ret' = [op |-> "update_todo", id |-> id, arg |-> todo, value |-> Some(store'[id])]
  /\ UNCHANGED <<envVars, udpVars, origin, id_generator, pc, issued, adds, new_item,
                 pipeline, step, invoked, engineVars>>

\* update_todo
UpdateTodo(id, todo) ==
  /\ pc = "idle"
  /\ calls < MaxCalls
  /\ calls' = calls + 1
  /\ IF id \in DOMAIN store
     THEN /\ store' = [store EXCEPT ![id] = apply_update(store[id], todo)]
          /\ ret' = [op |-> "update_todo", id |-> id, arg |-> todo,
                     value |-> Some(store'[id])]
     ELSE /\ store' = store
          /\ ret' = [op |-> "update_todo", id |-> id, arg |-> todo, value |-> None]
  /\ UNCHANGED <<envVars, udpVars, origin, id_generator, pc, issued, adds, new_item,
                 pipeline, step, invoked, engineVars>>

(***************************************************************************)
(* add_todo's seven calls: handler, engine, sinks, one step at a time.     *)
(***************************************************************************)
Running == pc = "add_todo" /\ pipeline \in 1..Len(PipelineNames)

Current == PipelineNames[pipeline]

Kind == SourceKind(Current, platform)

callerFrame == <<envVars, pc, pipeline, invoked, storeVars>>
handlerFrame == <<callerFrame, udpVars>>

\* the socket is a local of the handler: it is closed when the handler is
\* left, by return or by unwinding, and with the process when that ends
Release(holder) == {b \in bound : b[2] # holder}

\* whether bind finds the fixed local address of entry point p free
Free(p) == \A b \in bound : b[1] # p

\* a handler returns r to add_todo
\* a return that leaves the socket of the handler open
ReturnHolding(r) ==
  /\ result' = r
  /\ step' = "returned"
  /\ bound' = bound

Return(r) ==
  /\ result' = r
  /\ step' = "returned"
  /\ bound' = Release("caller")

\* add_todo calls the entry point at hand.  The directory entry point is an
\* async fn run by block_on on the runtime that Runtime::new().unwrap() built
\* just before: if Runtime::new fails the unwrap panics and the call is not
\* made.
Invoke ==
  /\ Running
  /\ step = "call"
  /\ \E runtime_ok \in (IF Current = "directory" THEN BOOLEAN ELSE {TRUE}) :
       IF runtime_ok
       THEN /\ invoked' = Append(invoked, Current)
            /\ step' = "enter"
            /\ pc' = pc
       ELSE /\ pc' = "panicked"
            /\ UNCHANGED <<invoked, step>>
  /\ UNCHANGED <<envVars, udpVars, pipeline, storeVars, engineVars>>

\* TcpStream::connect / UdpSocket::bind
Open ==
  /\ Running
  /\ step = "enter"
  /\ Kind \in {"tcp", "udp"}
  /\ \E opened \in (IF traffic = "none" \/ (Kind = "udp" /\ ~Free(Current))
                     THEN {FALSE} ELSE BOOLEAN) :
       IF opened
       THEN /\ step' = "open"
            /\ result' = result
            /\ bound' = IF Kind = "udp" THEN bound \cup {<<Current, "caller">>} ELSE bound
            /\ log' = Append(log, "open")
       ELSE /\ Return(Err(OpenError(Current)))
            /\ log' = Append(log, "open_failed")
  /\ UNCHANGED <<callerFrame, peer, payload, input, processed_data, enriched_data,
                 final_data, statuses, sink_args, sinkVars>>

\* what the receive call reports to the handler: read_result (-1 for an Err
\* or SOCKET_ERROR) and the bytes it left in the buffer.  WSARecvFrom reports
\* 0 for success, the number of bytes goes to an out parameter.
ReceiveReports(kind, p, load) ==
  (IF Blocks(kind, load) THEN {} ELSE {[read_result |-> 0 - 1, bytes |-> ""]})
    \cup {[read_result |-> IF kind = "wsarecvfrom" THEN 0 ELSE Len(Received(m)),
           bytes |-> Received(m)] : m \in Sent(p, load)}

\* what a receive call did: it failed, it took a datagram or a read of no
\* bytes, or it took data
ReceiveEvent(report) ==
  IF report.read_result < 0 THEN "receive_failed"
  ELSE IF report.bytes = "" THEN "receive_empty" ELSE "receive"

\* the handler's test on read_result
HandlerAccepts(kind, read_result) ==
  IF kind = "wsarecvfrom" THEN read_result = 0 ELSE read_result > 0

\* the slice of the buffer the handler decodes
HandlerSlice(kind, report) ==
  IF kind = "wsarecvfrom" THEN WholeBuffer(report.bytes) ELSE report.bytes

\* the Err of a handler whose receive call was not accepted
HandlerRefusal(kind, p, read_result) ==
  IF kind \in {"tcp", "udp"} /\ read_result < 0 THEN ReceiveError(p) ELSE NoDataError(p)

\* stream.read / socket.recv / WinSock::recv / recvfrom / WSARecvFrom
Receive ==
  /\ Running
  /\ \/ step = "open" /\ Kind \in {"tcp", "udp"}
     \/ step = "enter" /\ Kind \in {"winsock", "wsarecvfrom"}
  /\ \E report \in ReceiveReports(Kind, Current, traffic) :
       /\ IF HandlerAccepts(Kind, report.read_result)
          THEN /\ payload' = HandlerSlice(Kind, report)
               /\ step' = "received"
               /\ result' = result
               /\ bound' = bound
          ELSE /\ Return(Err(HandlerRefusal(Kind, Current, report.read_result)))
               /\ payload' = payload
       /\ log' = Append(log, ReceiveEvent(report))
  /\ UNCHANGED <<callerFrame, peer, input, processed_data, enriched_data, final_data,
                 statuses, sink_args, sinkVars>>

\* String::from_utf8_lossy(..).to_string()
Decode ==
  /\ Running
  /\ step = "received"
  /\ input' = from_utf8_lossy(payload)
  /\ step' = "decoded"
  /\ log' = Append(log, "decode")
  /\ UNCHANGED <<handlerFrame, payload, processed_data, enriched_data, final_data,
                 statuses, sink_args, sinkVars, result>>

\* the builds that are not for Windows: "test_command".to_string() and the like
Literal ==
  /\ Running
  /\ step = "enter"
  /\ Kind = "literal"
  /\ input' = LiteralSource(Current)
  /\ step' = "decoded"
  /\ log' = Append(log, "literal")
  /\ UNCHANGED <<handlerFrame, payload, processed_data, enriched_data, final_data,
                 statuses, sink_args, sinkVars, result>>

RunStage1 ==
  /\ Running
  /\ step = "decoded"
  /\ processed_data' \in Stage1(Current, input)
  /\ step' = "stage1"
  /\ log' = Append(log, "stage1")
  /\ UNCHANGED <<handlerFrame, payload, input, enriched_data, final_data, statuses,
                 sink_args, sinkVars, result>>

RunStage2 ==
  /\ Running
  /\ step = "stage1"
  /\ \E now \in Timestamps :
       enriched_data' \in Stage2(Current, processed_data, now, platform)
  /\ step' = "stage2"
  /\ log' = Append(log, "stage2")
  /\ UNCHANGED <<handlerFrame, payload, input, processed_data, final_data, statuses,
                 sink_args, sinkVars, result>>

RunStage3 ==
  /\ Running
  /\ step = "stage2"
  /\ final_data' = Stage3(Current, enriched_data)
  /\ step' = "stage3"
  /\ log' = Append(log, "stage3")
  /\ UNCHANGED <<handlerFrame, payload, input, processed_data, enriched_data,
                 statuses, sink_args, sinkVars, result>>

\* the engine calls its next sink with &final_data
RunSink ==
  /\ Running
  /\ step = "stage3"
  /\ Len(statuses) < SinkCount(Current)
  /\ \E outcome \in SinkOutcomes(Current, Len(statuses) + 1) :
       CASE outcome = "return" ->
              /\ statuses' = Append(statuses,
                                    SinkStatus(Current, Len(statuses) + 1, final_data))
              /\ pc' = pc
              /\ bound' = bound
         [] outcome = "corrupt" ->
              /\ \E garbage \in CorruptStatuses : statuses' = Append(statuses, garbage)
              /\ pc' = pc
              /\ bound' = bound
         [] outcome = "panic" ->
              /\ statuses' = statuses
              /\ pc' = "panicked"
              /\ bound' = Release("caller")
         [] outcome = "abort" ->
              /\ statuses' = statuses
              /\ pc' = "aborted"
              /\ bound' = {}
  /\ sink_args' = Append(sink_args, final_data)
  /\ parsed' = parsed \o UrisParsed(Current, Len(statuses) + 1, final_data)
  /\ redirects' = redirects \o RedirectsBuilt(Current, Len(statuses) + 1, final_data)
  /\ log' = Append(log, "sink" \o Dec(Len(statuses) + 1))
  /\ UNCHANGED <<envVars, peer, pipeline, step, invoked, storeVars, payload, input,
                 processed_data, enriched_data, final_data, result>>

\* Ok(format!(..)): the engine returns its summary to the handler
\* an engine that returns Err when a sink of it built nothing
SummarizeFailingSinks ==
  /\ Running
  /\ step = "stage3"
  /\ Len(statuses) = SinkCount(Current)
  /\ result' = IF Current = "redirect" /\ redirects = <<>>
               THEN Err("no redirect built")
               ELSE Ok(EngineSummary(Current, statuses))
  /\ step' = "summarized"
  /\ log' = Append(log, "summary")
  /\ UNCHANGED <<handlerFrame, payload, input, processed_data, enriched_data,
                 final_data, statuses, sink_args, sinkVars>>

Summarize ==
  /\ Running
  /\ step = "stage3"
  /\ Len(statuses) = SinkCount(Current)
  /\ result' = Ok(EngineSummary(Current, statuses))
  /\ step' = "summarized"
  /\ log' = Append(log, "summary")
  /\ UNCHANGED <<handlerFrame, payload, input, processed_data, enriched_data,
                 final_data, statuses, sink_args, sinkVars>>

\* "match handle_..._operations(data) { Ok(result) => Ok(result),
\* Err(e) => Err(format!(..)) }": the handler returns what it makes of the
\* engine's Result
Match ==
  /\ Running
  /\ step = "summarized"
  /\ Return(HandlerResult(Current, result))
  /\ UNCHANGED <<callerFrame, peer, payload, input, processed_data, enriched_data,
                 final_data, statuses, sink_args, sinkVars, log>>

\* "let _ = ...": the Result is dropped and add_todo goes on to its next call
NextEntryPoint ==
  /\ Running
  /\ step = "returned"
  /\ pipeline < Len(PipelineNames)
  /\ pipeline' = pipeline + 1
  /\ step' = "call"
  /\ EngineReset
  /\ UNCHANGED <<envVars, udpVars, pc, invoked, storeVars>>

\* add_todo returns new_item after its last call
\* an add_todo that returns the item only if its last entry point returned Ok
AddTodoReturnOnOk ==
  /\ Running
  /\ step = "returned"
  /\ pipeline = Len(PipelineNames)
  /\ pc' = "idle"
  /\ pipeline' = 0
  /\ step' = "none"
  /\ ret' = [op |-> "add_todo", id |-> new_item.id, arg |-> new_item.item,
             value |-> IF result.ok THEN Some(new_item) ELSE None]
  /\ issued' = Append(issued, new_item.id)
  /\ EngineReset
  /\ UNCHANGED <<envVars, udpVars, invoked, origin, store, id_generator, adds, calls, new_item>>

AddTodoReturn ==
  /\ Running
  /\ step = "returned"
  /\ pipeline = Len(PipelineNames)
  /\ pc' = "idle"
  /\ pipeline' = 0
  /\ step' = "none"
  /\ ret' = [op |-> "add_todo", id |-> new_item.id, arg |-> new_item.item,
             value |-> Some(new_item)]
  /\ issued' = Append(issued, new_item.id)
  /\ EngineReset
  /\ UNCHANGED <<envVars, udpVars, invoked, origin, store, id_generator, adds, calls, new_item>>

Next ==
  \/ \E todo \in TodoInputs : AddTodoBegin(todo)
  \/ \E pagination \in Paginations : GetTodos(pagination)
  \/ \E id \in Ids : GetTodo(id)
  \/ \E id \in Ids : RemoveTodo(id)
  \/ \E id \in Ids, todo \in UpdateInputs : UpdateTodo(id, todo)
  \/ Invoke
  \/ Open
  \/ Receive
  \/ Decode
  \/ Literal
  \/ RunStage1
  \/ RunStage2
  \/ RunStage3
  \/ RunSink
  \/ Summarize
  \/ Match
  \/ NextEntryPoint
  \/ AddTodoReturn

Spec == Init /\ [][Next]_vars

\* a client that calls add_todo once on a Default store, with any network
PipelineInit ==
  /\ Init
  /\ hash_builder = FirstRandomState
  /\ traffic = "any"
  /\ origin = "default"

PipelineNext ==
  \/ \E todo \in TodoInputs : adds = 0 /\ AddTodoBegin(todo)
  \/ Invoke
  \/ Open
  \/ Receive
  \/ Decode
  \/ Literal
  \/ RunStage1
  \/ RunStage2
  \/ RunStage3
  \/ RunSink
  \/ Summarize
  \/ Match
  \/ NextEntryPoint
  \/ AddTodoReturn

PipelineSpec == PipelineInit /\ [][PipelineNext]_vars

\* the same client on a network whose peers send anything or nothing at all.
\* add_todo runs on the thread of its caller and that thread keeps running:
\* whatever step the program can take, it takes.  No step is promised on
\* behalf of a peer: a receive that waits is a step that cannot be taken.
TerminationInit ==
  /\ Init
  /\ hash_builder = FirstRandomState
  /\ traffic \in {"any", "silent"}
  /\ origin = "default"

\* the steps of the thread outside the stages and the sinks
ThreadSteps ==
  \/ \E todo \in TodoInputs : adds = 0 /\ AddTodoBegin(todo)
  \/ Invoke
  \/ Open
  \/ Receive
  \/ Decode
  \/ Literal
  \/ Summarize
  \/ Match
  \/ NextEntryPoint
  \/ AddTodoReturn

\* a stage is a function of a String that waits on nothing: once called it
\* hands its String back.  The step by the place it leaves and the place it
\* reaches.
StageReturns ==
  /\ Running
  /\ \/ step = "decoded" /\ step' = "stage1"
     \/ step = "stage1" /\ step' = "stage2"
     \/ step = "stage2" /\ step' = "stage3"

\* a sink that was called comes back or ends the process: the step by its
\* entry in the log
SinkReturns ==
  /\ Running
  /\ step = "stage3"
  /\ Len(statuses) < SinkCount(Current)
  /\ log' = Append(log, "sink" \o Dec(Len(statuses) + 1))

TerminationSpec ==
  /\ TerminationInit
  /\ [][PipelineNext]_vars
  /\ WF_vars(ThreadSteps)
  /\ WF_step(StageReturns)
  /\ WF_log(SinkReturns)

(***************************************************************************)
(* The command entry point of the Windows build with a command in its      *)
(* buffer: the decoding and the first stage, over many commands.           *)
(***************************************************************************)
CommandWords == {"ls", "dir", "cat", "type", "rm", "del", "echo"}

\* two words and a tail that takes the tagged string to either side of 50 bytes
CommandInputs ==
  {a \o " " \o b \o tail : a \in CommandWords, b \in CommandWords,
                           tail \in {"", Repeat("-", 20), Repeat("-", 22), Repeat("-", 24)}}

ClassifyInit ==
  /\ platform = "windows"
  /\ hash_builder = FirstRandomState
  /\ traffic = "any"
  /\ origin = "default"
  /\ \E todo \in {CHOOSE t \in TodoInputs : TRUE} :
       /\ store = MapInsert(EmptyMap, 0, IdentifyableTodoItem(0, todo))
       /\ new_item = IdentifyableTodoItem(0, todo)
  /\ id_generator = 1
  /\ pc = "add_todo"
  /\ ret = NoReturn
  /\ issued = <<>>
  /\ adds = 1
  /\ calls = 0
  /\ pipeline = CHOOSE i \in 1..Len(PipelineNames) : PipelineNames[i] = "command"
  /\ invoked = SubSeq(PipelineNames, 1, pipeline)
  /\ step = "received"
  /\ payload \in CommandInputs
  /\ input = ""
  /\ processed_data = ""
  /\ enriched_data = ""
  /\ final_data = ""
  /\ statuses = <<>>
  /\ sink_args = <<>>
  /\ parsed = <<>>
  /\ redirects = <<>>
  /\ bound = {}
  /\ peer = NoPeer
  /\ result = NoResult
  /\ log = <<"receive">>

ClassifyNext ==
  \/ Decode
  \/ RunStage1

ClassifySpec == ClassifyInit /\ [][ClassifyNext]_vars

(***************************************************************************)
(* The directory engine on its own: one call of the directory entry point  *)
(* whose datagram has arrived, the datagram drawn from distinguished names, *)
(* filters and strings that carry the separators the second stage looks    *)
(* for ('|', '#', ',') and a checksum field of their own.                  *)
(***************************************************************************)
IdentityInputs ==
  {"cn=admin,dc=example,dc=com", "(uid=*)", "ou=people", "x", ",", "|",
   "#S0,X0,R0", "61#S0,X0,R0", "6162#S0,X0,R0|", "a|b#S98,X98,R98",
   "cn=a#S0,X0,R0", "#", "a,b,c"}

IdentityInit ==
  /\ platform = "windows"
  /\ hash_builder = FirstRandomState
  /\ traffic = "any"
  /\ origin = "default"
  /\ \E todo \in {CHOOSE t \in TodoInputs : TRUE} :
       /\ store = MapInsert(EmptyMap, 0, IdentifyableTodoItem(0, todo))
       /\ new_item = IdentifyableTodoItem(0, todo)
  /\ id_generator = 1
  /\ pc = "add_todo"
  /\ ret = NoReturn
  /\ issued = <<>>
  /\ adds = 1
  /\ calls = 0
  /\ pipeline = CHOOSE i \in 1..Len(PipelineNames) : PipelineNames[i] = "directory"
  /\ invoked = SubSeq(PipelineNames, 1, pipeline)
  /\ step = "received"
  /\ payload \in IdentityInputs
  /\ input = ""
  /\ processed_data = ""
  /\ enriched_data = ""
  /\ final_data = ""
  /\ statuses = <<>>
  /\ sink_args = <<>>
  /\ parsed = <<>>
  /\ redirects = <<>>
  /\ bound = {<<"directory", "caller">>}
  /\ peer = NoPeer
  /\ result = NoResult
  /\ log = <<"receive">>

IdentityNext ==
  \/ Decode
  \/ RunStage1
  \/ RunStage2
  \/ RunStage3
  \/ RunSink

IdentitySpec == IdentityInit /\ [][IdentityNext]_vars

(***************************************************************************)
(* A UDP entry point called on a second thread while add_todo is inside    *)
(* the same entry point, or has just left it.                              *)
(***************************************************************************)
\* UdpSocket::bind in the call on the other thread
PeerBind ==
  /\ Running
  /\ Kind = "udp"
  /\ step # "call"
  /\ peer.at \in {"absent", "returned"}
  /\ \E opened \in (IF Free(Current) THEN BOOLEAN ELSE {FALSE}) :
       IF opened
       THEN /\ peer' = PeerAt("bound", "")
            /\ bound' = bound \cup {<<Current, "peer">>}
       ELSE /\ peer' = PeerAt("returned", OpenError(Current))
            /\ bound' = bound
  /\ UNCHANGED <<callerFrame, step, engineVars>>

\* socket.recv / recv_from in the call on the other thread
PeerReceive ==
  /\ Running
  /\ peer.at = "bound"
  /\ \E report \in ReceiveReports(Kind, Current, traffic) :
       IF HandlerAccepts(Kind, report.read_result)
       THEN /\ peer' = PeerAt("received", "")
            /\ bound' = bound
       ELSE /\ peer' = PeerAt("returned", HandlerRefusal(Kind, Current, report.read_result))
            /\ bound' = Release("peer")
  /\ UNCHANGED <<callerFrame, step, engineVars>>

\* the call on the other thread leaves its handler after its engine ran,
\* by return or by unwinding: its socket is closed
PeerReturn ==
  /\ Running
  /\ peer.at = "received"
  /\ peer' = PeerAt("returned", "")
  /\ bound' = Release("peer")
  /\ UNCHANGED <<callerFrame, step, engineVars>>

\* add_todo is about to call one of its UDP entry points
OverlapInit ==
  /\ platform \in Platforms
  /\ hash_builder = FirstRandomState
  /\ traffic = "any"
  /\ origin = "default"
  /\ \E todo \in {CHOOSE t \in TodoInputs : TRUE} :
       /\ store = MapInsert(EmptyMap, 0, IdentifyableTodoItem(0, todo))
       /\ new_item = IdentifyableTodoItem(0, todo)
  /\ id_generator = 1
  /\ pc = "add_todo"
  /\ ret = NoReturn
  /\ issued = <<>>
  /\ adds = 1
  /\ calls = 0
  /\ pipeline \in {i \in 1..Len(PipelineNames) : SourceKind(PipelineNames[i], platform) = "udp"}
  /\ invoked = SubSeq(PipelineNames, 1, pipeline - 1)
  /\ step = "call"
  /\ payload = ""
  /\ input = ""
  /\ processed_data = ""
  /\ enriched_data = ""
  /\ final_data = ""
  /\ statuses = <<>>
  /\ sink_args = <<>>
  /\ parsed = <<>>
  /\ redirects = <<>>
  /\ bound = {}
  /\ peer = NoPeer
  /\ result = NoResult
  /\ log = <<>>

OverlapNext ==
  \/ Invoke
  \/ Open
  \/ Receive
  \/ Decode
  \/ RunStage1
  \/ RunStage2
  \/ RunStage3
  \/ RunSink
  \/ Summarize
  \/ Match
  \/ PeerBind
  \/ PeerReceive
  \/ PeerReturn

OverlapSpec == OverlapInit /\ [][OverlapNext]_vars

\* the Results an engine of the signature Result<String, String> may hand to
\* its handler (the engines as they stand return Ok alone)
EngineErrors == {"", "connection refused", "Path engine error: nested", "a, b: c"}
EngineResults == {Ok("Path operations completed: a, b")} \cup {Err(e) : e \in EngineErrors}

\* the match at the end of a handler, taken on its own: add_todo is inside
\* one of its entry points, whose engine has just returned any Result
HandlerInit ==
  /\ platform \in Platforms
  /\ hash_builder = FirstRandomState
  /\ traffic = "any"
  /\ origin = "default"
  /\ \E todo \in {CHOOSE t \in TodoInputs : TRUE} :
       /\ store = MapInsert(EmptyMap, 0, IdentifyableTodoItem(0, todo))
       /\ new_item = IdentifyableTodoItem(0, todo)
  /\ id_generator = 1
  /\ pc = "add_todo"
  /\ ret = NoReturn
  /\ issued = <<>>
  /\ adds = 1
  /\ calls = 0
  /\ pipeline \in 1..Len(PipelineNames)
  /\ invoked = SubSeq(PipelineNames, 1, pipeline)
  /\ step = "summarized"
  /\ payload = ""
  /\ input = ""
  /\ processed_data = ""
  /\ enriched_data = ""
  /\ final_data = ""
  /\ statuses = <<>>
  /\ sink_args = <<>>
  /\ parsed = <<>>
  /\ redirects = <<>>
  /\ bound = IF SourceKind(PipelineNames[pipeline], platform) = "udp"
             THEN {<<PipelineNames[pipeline], "caller">>} ELSE {}
  /\ peer = NoPeer
  /\ result \in EngineResults
  /\ log = <<>>

HandlerNext == Match

HandlerSpec == HandlerInit /\ [][HandlerNext]_vars

\* any client of a store of either origin, in the Windows build without a
\* network: every entry point returns the Err of its source
StoreInit ==
  /\ Init
  /\ platform = "windows"
  /\ traffic = "none"

StoreNext ==
  \/ \E todo \in TodoInputs : AddTodoBegin(todo)
  \/ \E pagination \in Paginations : GetTodos(pagination)
  \/ \E id \in Ids : GetTodo(id)
  \/ \E id \in Ids : RemoveTodo(id)
  \/ \E id \in Ids, todo \in UpdateInputs : UpdateTodo(id, todo)
  \/ Invoke
  \/ Open
  \/ Receive
  \/ NextEntryPoint
  \/ AddTodoReturn

StoreSpec == StoreInit /\ [][StoreNext]_vars

(***************************************************************************)
(* A store that is filled, thinned out and read page by page.              *)
(***************************************************************************)
\* the pages a caller asks for: the k-th page of size L, and everything
PageRequests ==
  {[offset |-> Some(k * L), limit |-> Some(L)] : k \in 0..2, L \in 1..2}
    \cup {[offset |-> None, limit |-> None]}

PagingNext ==
  \/ \E todo \in TodoInputs : AddTodoBegin(todo)
  \/ \E pagination \in PageRequests : GetTodos(pagination)
  \/ \E id \in Ids : RemoveTodo(id)
  \/ Invoke
  \/ Open
  \/ Receive
  \/ NextEntryPoint
  \/ AddTodoReturn

PagingSpec == StoreInit /\ [][PagingNext]_vars

(***************************************************************************)
(* The store's contract (lib.rs), checked under StoreSpec.                 *)
(***************************************************************************)
\* a step in which the named call on the store was made and returned
Returned(op) == calls' = calls + 1 /\ ret'.op = op

\* C1: over any sequence of add_todo, remove_todo and update_todo calls on
\* one store, the ids add_todo returned are strictly increasing in call
\* order, and none is returned twice
C1_IdsStrictlyIncreasing ==
  \A i, j \in 1..Len(issued) : i < j => issued[i] < issued[j]

\* C4: update_todo with an id that is no key of the store returns None, leaves
\* the map and the id counter as they were whatever the patch carries, and
\* raises no error
C4_UpdateAbsentIsNoOp ==
  [][(Returned("update_todo") /\ ret'.id \notin DOMAIN store)
       => /\ ret'.value = None
          /\ store' = store
          /\ id_generator' = id_generator
          /\ pc' = "idle"]_vars

\* an update_todo of an absent id, with a patch that carries fields, has
\* returned on a store that holds an item
C4_Witness ==
  /\ ret.op = "update_todo"
  /\ ret.id \notin DOMAIN store
  /\ ret.arg.title # None
  /\ ret.arg.completed # None
  /\ store # EmptyMap

\* the field of an item after a patch: the patch's value if it has one
Patched(patch_field, old) == IF patch_field = None THEN old ELSE patch_field[1]

\* C5: update_todo on an existing id replaces exactly the fields the patch
\* has, leaves the absent fields, the item's id, every other item, the key
\* set and the id counter unchanged, and returns the item now stored
C5_UpdateReplacesPresentFields ==
  [][(Returned("update_todo") /\ ret'.id \in DOMAIN store)
       => /\ DOMAIN store' = DOMAIN store
          /\ \A k \in DOMAIN store \ {ret'.id} : store'[k] = store[k]
          /\ store'[ret'.id].id = store[ret'.id].id
          /\ store'[ret'.id].item.title
               = Patched(ret'.arg.title, store[ret'.id].item.title)
          /\ store'[ret'.id].item.notes
               = Patched(ret'.arg.notes, store[ret'.id].item.notes)
          /\ store'[ret'.id].item.assigned_to
               = Patched(ret'.arg.assigned_to, store[ret'.id].item.assigned_to)
          /\ store'[ret'.id].item.completed
               = Patched(ret'.arg.completed, store[ret'.id].item.completed)
          /\ id_generator' = id_generator
          /\ ret'.value = Some(store'[ret'.id])]_vars

\* an update_todo with a patch that has a title and no assignee has returned
\* the item it changed, in a store that holds another item too
C5_Witness ==
  /\ ret.op = "update_todo"
  /\ ret.id \in DOMAIN store
  /\ ret.arg.title # None
  /\ ret.arg.assigned_to = None
  /\ ret.value = Some(store[ret.id])
  /\ store[ret.id].item.title = ret.arg.title[1]
  /\ store[ret.id].item.assigned_to # ""
  /\ Cardinality(DOMAIN store) >= 2

\* C6: remove_todo(id) returns the item under id and deletes that entry alone
\* when id is present, returns nothing and changes nothing when it is absent,
\* leaves the other entries and the id counter unchanged, and a get_todo(id)
\* that follows returns nothing
C6_RemoveDeletesExactlyOne ==
  [][/\ Returned("remove_todo")
          => /\ ret'.value = (IF ret'.id \in DOMAIN store THEN Some(store[ret'.id])
                              ELSE None)
             /\ DOMAIN store' = DOMAIN store \ {ret'.id}
             /\ \A k \in DOMAIN store' : store'[k] = store[k]
             /\ (ret'.id \notin DOMAIN store => store' = store)
             /\ id_generator' = id_generator
     /\ (Returned("get_todo") /\ ret.op = "remove_todo" /\ ret'.id = ret.id)
          => ret'.value = None]_vars

\* a get_todo has returned nothing for an id that add_todo had issued and a
\* remove_todo deleted since, in a store that keeps another item
C6_Witness ==
  /\ ret.op = "get_todo"
  /\ ret.value = None
  /\ ret.id \in {issued[i] : i \in 1..Len(issued)}
  /\ ret.id \notin DOMAIN store
  /\ store # EmptyMap

(***************************************************************************)
(* The pipelines' contract, checked under PipelineSpec.                    *)
(***************************************************************************)
\* the entry point at hand has taken the step
Logged(event) == \E i \in 1..Len(log) : log[i] = event

\* C2: in every pipeline the final stage-3 string handed to the sinks
\* contains the input string s, unmodified, as a contiguous substring
C2_InputReachesSinksUnmodified ==
  (Running /\ Logged("stage3")) => Contains(final_data, input)

Ordinals == <<"First", "Second", "Third">>

IsPrefix(a, b) == Len(a) <= Len(b) /\ a = SubSeq(b, 1, Len(a))

\* C7: every add_todo call invokes each of the seven entry points once, in the
\* order path, command, SQL, redirect, XPath, integration, directory, whatever
\* the earlier ones returned
C7_AllSevenInvokedInOrder ==
  /\ IsPrefix(invoked, PipelineNames)
  /\ (adds > 0 /\ pc # "add_todo") => invoked = PipelineNames

\* the steps of the entry point at hand from its receive on: the opening of
\* the socket and the taking of the literal are not among them, and a receive
\* is a receive whatever it brought
StepsTaken ==
  LET kept == SelectSeq(log, LAMBDA e : e \notin {"open", "open_failed", "literal"})
  IN [i \in 1..Len(kept) |->
        IF kept[i] \in {"receive_failed", "receive_empty"} THEN "receive" ELSE kept[i]]

\* stage 1 to the summary, for an engine with the sinks of the entry point at hand
EngineSteps ==
  <<"stage1", "stage2", "stage3">>
    \o [n \in 1..SinkCount(Current) |-> "sink" \o Dec(n)]
    \o <<"summary">>

\* the order of steps, the sinks' argument and the size of the receive, for
\* an invocation that begins with the given steps
OnePass(source_steps) ==
  Running =>
    /\ IsPrefix(StepsTaken, source_steps \o EngineSteps)
    /\ (step = "returned" /\ result.ok) => StepsTaken = source_steps \o EngineSteps
    /\ \A n \in 1..Len(sink_args) : sink_args[n] = final_data
    /\ Len(payload) <= BUFFER_SIZE

SourceFailureReason(p, kind, event) ==
  CASE event = "open_failed" -> OpenError(p)
    [] event = "receive_failed" ->
         IF kind \in {"tcp", "udp"} THEN ReceiveError(p) ELSE NoDataError(p)
    [] event = "receive_empty" -> NoDataError(p)

\* C9: when a socket-backed source fails to bind or connect, fails to receive
\* or receives zero bytes, the entry point returns Err with the reason of that
\* channel, and no stage and no sink is invoked
C9_SourceFailureReturnsErr ==
  Running =>
    \A i \in 1..Len(log) :
      log[i] \in {"open_failed", "receive_failed", "receive_empty"}
        => /\ i = Len(log)
           /\ step = "returned"
           /\ result = Err(SourceFailureReason(Current, Kind, log[i]))

\* C10: no failure inside a pipeline invocation is fatal: no invocation and
\* no add_todo call panics or aborts
C10_NothingIsFatal == pc \notin {"panicked", "aborted"}

(***************************************************************************)
(* The redirect sinks.                                                     *)
(***************************************************************************)
\* the payload carries a URI scheme
HasScheme(str) == Scheme2Parse(str, Collect(Bytes(str))) > 0

\* C11: in the redirect scenario a payload that carries no URI scheme is
\* prefixed with "http://" before either redirect sink hands the string to
\* the URI parser
C11_SchemelessPayloadGetsHttp ==
  (Running /\ Current = "redirect") =>
    \A n \in 1..Len(parsed) :
      ~HasScheme(input) => StartsWith(parsed[n], "http://")

\* the redirects the n-th sink has constructed
BuiltBy(n) == {i \in 1..Len(redirects) : redirects[i].sink = n}

\* C12: in the redirect scenario, when the string handed to a sink does not
\* parse as a URI, no redirect is constructed and no error propagates: the
\* sink returns its normal status and handle_redirect_operations returns Ok;
\* a redirect is constructed only when the parse succeeds
C12_UnparsedUriIsSwallowed ==
  (Running /\ Current = "redirect") =>
    /\ \A n \in 1..Len(parsed) :
         ~UriFromStr(parsed[n]).ok =>
           /\ BuiltBy(n) = {}
           /\ pc = "add_todo"
           /\ statuses[n] = Ordinals[n] \o " todo redirect operation completed: "
                              \o Dec(Len(parsed[n])) \o " bytes"
    /\ \A i \in 1..Len(redirects) : UriFromStr(parsed[redirects[i].sink]).ok
    /\ (step = "returned" /\ parsed # <<>>) =>
         /\ result.ok
         /\ Len(parsed) = 2

\* the redirect entry point has returned Ok after both sinks were handed a
\* string that is no URI, and no redirect was constructed
C12_Witness ==
  /\ Running
  /\ Current = "redirect"
  /\ step = "returned"
  /\ result.ok
  /\ Len(parsed) = 2
  /\ \A n \in 1..2 : ~UriFromStr(parsed[n]).ok
  /\ redirects = <<>>

(***************************************************************************)
(* The command scenario end to end.                                        *)
(***************************************************************************)
\* C13: for the input "ls -la" the final string of the command pipeline
\* contains "CMD_TYPE=LISTING", "PRIORITY=NORMAL" and "ls -la", and
\* handle_command_operations returns exactly two sink statuses, both with the
\* byte length of that final string
C13_ListingEndToEnd ==
  (Running /\ Current = "command" /\ input = "ls -la") =>
    /\ Logged("stage3") =>
         /\ Contains(final_data, "CMD_TYPE=LISTING")
         /\ Contains(final_data, "PRIORITY=NORMAL")
         /\ Contains(final_data, "ls -la")
    /\ Len(statuses) <= 2
    /\ step = "returned" =>
         result = Ok("Command operations completed: "
                       \o "First command operation completed: "
                       \o Dec(Len(final_data)) \o " bytes, "
                       \o "Second command operation completed: "
                       \o Dec(Len(final_data)) \o " bytes")

\* the command entry point has returned its summary for the input "ls -la"
C13_Witness ==
  /\ Running
  /\ Current = "command"
  /\ input = "ls -la"
  /\ step = "returned"
  /\ result.ok
  /\ Len(statuses) = 2

(***************************************************************************)
(* What an entry point returns.                                            *)
(***************************************************************************)
\* the source of the entry point at hand has given it a payload that is not
\* empty
PayloadObtained ==
  pipeline \in 1..Len(PipelineNames) /\ (Logged("receive") \/ Logged("literal"))

\* C14: whenever a source adapter obtains a non-empty payload, the entry
\* point returns Ok with a summary made of the scenario's fixed prefix and the
\* sink statuses in sink order, separated by ", ": two statuses for path,
\* command, SQL, redirect and LDAP, three for XPath and FFI
C14_PayloadGivesOkSummary ==
  PayloadObtained =>
    /\ pc = "add_todo"
    /\ step = "returned" =>
         /\ result.ok
         /\ Len(statuses) = (IF Current \in {"xpath", "integration"} THEN 3 ELSE 2)
         /\ EndsWith(result.value,
                     " operations completed: " \o Join(statuses, ", "))

(***************************************************************************)
(* The handlers' match, checked under HandlerSpec.                         *)
(***************************************************************************)
EngineNames ==
  {"Path", "Command", "SQL", "Redirect", "Todo", "Integration", "Synchronization"}

\* C15: if a scenario's engine returns Err(inner), the entry point returns
\* Err("<Name> engine error: <inner>"), the inner reason verbatim and nothing
\* else added
C15_EngineErrIsWrapped ==
  [][(step = "summarized" /\ step' = "returned" /\ ~result.ok) =>
       \E name \in EngineNames :
         result' = Err(name \o " engine error: " \o result.value)]_vars

\* a handler has returned the Err it made of its engine's Err
C15_Witness ==
  /\ step = "returned"
  /\ ~result.ok
  /\ EndsWith(result.value, " engine error: connection refused")

(***************************************************************************)
(* from_hashmap and get_todos (lib.rs), checked under StoreSpec.           *)
(***************************************************************************)
\* the largest of the keys plus one, 0 for no key
PastLargest(keys) == IF keys = {} THEN 0 ELSE MaxOf(keys) + 1

\* C16: TodoStore::from_hashmap(m) seeds the id generator with the largest
\* key of m plus one, or 0 when m is empty, so the first add_todo on that store
\* returns exactly that id, greater than every key of m
C16_SeedIsPastLargestKey ==
  origin = "from_hashmap" =>
    /\ (adds = 0 /\ calls = 0) =>
         /\ pc = "idle"
         /\ id_generator = PastLargest(DOMAIN store)
    /\ (adds = 1 /\ calls = 0) =>
         LET m == (DOMAIN store) \ {new_item.id}
         IN /\ new_item.id = PastLargest(m)
            /\ \A k \in m : new_item.id > k

\* min and max of two numbers
Smaller(a, b) == IF a < b THEN a ELSE b
Larger(a, b) == IF a > b THEN a ELSE b

\* C17: for a store of n items, get_todos with offset o (default 0) and limit
\* l (default unbounded) returns exactly min(l, max(0, n - o)) items, each an
\* item of the store, no item of the store twice, and leaves the store as it
\* was
C17_GetTodosPaginates ==
  [][Returned("get_todos") =>
       LET n == Cardinality(DOMAIN store)
           o == IF ret'.arg.offset = None THEN 0 ELSE ret'.arg.offset[1]
           page == ret'.value
       IN /\ Len(page) = (IF ret'.arg.limit = None THEN Larger(0, n - o)
                          ELSE Smaller(ret'.arg.limit[1], Larger(0, n - o)))
          /\ \A i \in 1..Len(page) :
               /\ \E k \in DOMAIN store : page[i] = store[k]
               /\ Cardinality({j \in 1..Len(page) : page[j] = page[i]})
                    <= Cardinality({k \in DOMAIN store : store[k] = page[i]})
          /\ store' = store
          /\ id_generator' = id_generator]_vars

\* get_todos has returned the one item of the second page of a store of two
\* items or more
C17_Witness ==
  /\ ret.op = "get_todos"
  /\ ret.arg = [offset |-> Some(1), limit |-> Some(1)]
  /\ Cardinality(DOMAIN store) >= 2
  /\ Len(ret.value) = 1
  /\ \E k \in DOMAIN store : ret.value[1] = store[k]

(***************************************************************************)
(* Termination, checked under TerminationSpec.                             *)
(***************************************************************************)
\* the entry point at hand was called and has not returned
Entered == Running /\ step \notin {"call", "returned"}

\* C18: every invocation of an entry point eventually returns Ok or Err to
\* add_todo, its blocking receive included, and so every add_todo call
\* eventually returns the new item
C18_EveryInvocationReturns ==
  /\ Entered ~> (step = "returned")
  /\ (pc = "add_todo") ~> (pc = "idle" /\ ret.op = "add_todo" /\ ret.value = Some(new_item))

(***************************************************************************)
(* Independence of the pipelines, checked under PipelineSpec.              *)
(***************************************************************************)
\* the strings an engine can hand to its sinks for the input of its own
\* entry point when the clock reads now
HandedToSinks(p, data, now, os) ==
  {Stage3(p, enriched) :
     enriched \in UNION {Stage2(p, processed, now, os) : processed \in Stage1(p, data)}}

\* the Result of an entry point whose sinks were handed data
ResultFor(p, data) ==
  HandlerResult(p, Ok(EngineSummary(p, [n \in 1..SinkCount(p) |-> SinkStatus(p, n, data)])))

C20_Stage2OnlyAppends ==
  (Running /\ \E i \in 1..Len(log) : log[i] = "stage2")
    => StartsWith(enriched_data, processed_data)

(***************************************************************************)
(* The third stage, checked under PipelineSpec.                            *)
(***************************************************************************)
\* the engine at hand has run its third stage
Stage3Ran == Running /\ \E i \in 1..Len(log) : log[i] = "stage3"

\* C21: in every pipeline the third stage never shrinks its input: the
\* string it returns is at least as long in bytes as the string it was
\* given, a substitution of "&&", "||", "unsafe" or "-- SAFETY_CHECK"
\* included
C21_Stage3NeverShrinks == Stage3Ran => Len(final_data) >= Len(enriched_data)

(***************************************************************************)
(* The endpoint of a UDP entry point, checked under OverlapSpec.           *)
(***************************************************************************)
\* who holds the endpoint of entry point p
Holders(p) == {b[2] : b \in {c \in bound : c[1] = p}}

BindRefused == "Failed to bind UDP socket"

\* the endpoint is held by one call at most, and by no call that is over;
\* the caller that was refused has received nothing and reached no sink
EndpointHeldForTheCall ==
  /\ \A i \in 1..Len(PipelineNames) : Cardinality(Holders(PipelineNames[i])) <= 1
  /\ step = "returned" => "caller" \notin Holders(Current)
  /\ peer.at \in {"absent", "returned"} => "peer" \notin Holders(Current)
  /\ (step = "returned" /\ log = <<"open_failed">>) =>
       /\ result = Err(BindRefused)
       /\ payload = ""
       /\ sink_args = <<>>

\* a call that binds while the other call holds the endpoint returns the
\* Err of bind at once
SecondBindIsRefused ==
  /\ (peer.at \in {"absent", "returned"} /\ peer' # peer /\ ~Free(Current)) =>
       peer' = PeerAt("returned", BindRefused)
  /\ (step = "enter" /\ step' # step /\ ~Free(Current)) =>
       /\ step' = "returned"
       /\ result' = Err(BindRefused)
       /\ payload' = ""
       /\ sink_args' = <<>>

\* C22: a UDP entry point holds its fixed local endpoint for the time of its
\* own call alone: once a call has returned the endpoint is unbound and a
\* later call binds it again; of two calls that overlap one at most holds
\* it, and the other returns Err("Failed to bind UDP socket") without
\* receiving and without reaching a sink
C22_EndpointHeldForTheCall == []EndpointHeldForTheCall /\ [][SecondBindIsRefused]_vars

\* add_todo was refused the endpoint that the call on the other thread holds
C22_Witness ==
  /\ Running
  /\ step = "returned"
  /\ result = Err(BindRefused)
  /\ Holders(Current) = {"peer"}

(***************************************************************************)
(* The first stage of the command engine, checked under ClassifySpec.      *)
(***************************************************************************)
\* the command types in the order they are tried, each with its words
CommandTypes ==
  <<[tag |-> "LISTING", words |-> {"ls", "dir"}],
    [tag |-> "READING", words |-> {"cat", "type"}],
    [tag |-> "DELETION", words |-> {"rm", "del"}]>>

MatchingTypes(data) ==
  {i \in 1..Len(CommandTypes) : \E w \in CommandTypes[i].words : Contains(data, w)}

FirstCommandType(data) ==
  IF MatchingTypes(data) = {} THEN "EXECUTION" ELSE CommandTypes[MinOf(MatchingTypes(data))].tag

\* C23: the first stage of the command engine rejects and escapes nothing;
\* it appends one CMD_TYPE tag, LISTING, READING or DELETION by the first
\* match in that order and EXECUTION otherwise, then PRIORITY=HIGH exactly
\* when the string with its CMD_TYPE tag is longer than 50 bytes (NORMAL
\* otherwise), then LENGTH with the byte length of the original input
C23_ClassifyAppendsTypePriorityLength ==
  (Running /\ Current = "command" /\ step = "stage1") =>
    LET typed == input \o " -- CMD_TYPE=" \o FirstCommandType(input)
    IN processed_data = typed \o " -- PRIORITY="
                          \o (IF Len(typed) > 50 THEN "HIGH" ELSE "NORMAL")
                          \o " -- LENGTH=" \o Dec(Len(input))

\* a command with "type" and "del" was tagged READING, and HIGH
C23_Witness ==
  /\ Running
  /\ Current = "command"
  /\ step = "stage1"
  /\ Contains(input, "type")
  /\ Contains(input, "del")
  /\ EndsWith(processed_data,
              " -- CMD_TYPE=READING -- PRIORITY=HIGH -- LENGTH=" \o Dec(Len(input)))

Unreturned == adds > 0 /\ pc \in {"add_todo", "panicked", "aborted"}

\* C25: add_todo takes the id and inserts the new item before it contacts
\* the source of its first pipeline: while a pipeline of the call is
\* pending, blocked or has aborted, the store holds the new item and the id
\* counter has advanced
C25_InsertedBeforePipelines ==
  Unreturned =>
    /\ new_item.id \in DOMAIN store
    /\ store[new_item.id] = new_item
    /\ id_generator = new_item.id + 1

\* the path entry point waits on a peer that sends nothing, the item is in
\* the store
C25_Witness ==
  /\ Unreturned
  /\ step = "open"
  /\ Blocks(Kind, traffic)
  /\ new_item.id \in DOMAIN store
  /\ invoked = <<"path">>

(***************************************************************************)
(* What add_todo leaves and returns, checked under PipelineSpec.           *)
(***************************************************************************)
\* a step of add_todo after the insertion leaves the store, the counter and
\* the new item alone, and the step that returns hands back that item
PipelinesLeaveStoreAlone ==
  pc = "add_todo" =>
    /\ store' = store
    /\ id_generator' = id_generator
    /\ new_item' = new_item
    /\ pc' = "idle" => ret' = [op |-> "add_todo", id |-> new_item.id,
                              arg |-> new_item.item, value |-> Some(new_item)]

\* C26: the item add_todo returns and the store it leaves are the same
\* whatever the seven pipelines receive and whatever each returns: their
\* results are dropped and touch neither the store, nor the id counter, nor
\* the item returned
C26_PipelineResultsAreDiscarded == [][PipelinesLeaveStoreAlone]_vars

\* add_todo has returned the item after its seven calls
C26_Witness ==
  /\ pc = "idle"
  /\ ret.op = "add_todo"
  /\ ret.value = Some(new_item)
  /\ Len(invoked) = Len(PipelineNames)
  /\ store = MapInsert(EmptyMap, new_item.id, new_item)


\* C27: in the directory pipeline the second stage decodes hex only from a
\* '|'-separated part that holds '#' and a checksum field of three or more
\* ','-separated pieces; the checksum the first stage writes has no comma,
\* so nothing is decoded for any datagram, and the string handed to the two
\* LDAP sinks and the byte count of their status strings do not depend on
\* the datagram: the sinks get the empty string and report 0 bytes
C27_SinksIndependentOfDatagram ==
  (Running /\ Current = "directory") =>
    /\ step \in {"stage1", "stage2", "stage3"} =>
         /\ identity_decode(processed_data) = ""
         /\ \A c \in 1..Len(processed_data) : SubSeq(processed_data, c, c) # ","
    /\ Stage3Ran => final_data = ""
    /\ \A n \in 1..Len(sink_args) : sink_args[n] = ""
    /\ \A n \in 1..Len(statuses) :
         statuses[n] = SinkStatus("directory", n, "")

\* both sinks have returned for a datagram that carries a checksum field of
\* its own, three comma-separated pieces after a '#'
C27_Witness ==
  /\ Running
  /\ Current = "directory"
  /\ payload = "6162#S0,X0,R0|"
  /\ Len(statuses) = SinkCount("directory")
  /\ Len(sink_args) = SinkCount("directory")
  /\ statuses[1] = "First identity operation completed: 0 bytes"

(***************************************************************************)
(* The engines never return Err.                                           *)
(***************************************************************************)
\* the reasons the source adapter of entry point p gives
SourceErrors(p, os) ==
  {NoDataError(p)}
    \cup (IF SourceKind(p, os) \in {"tcp", "udp"}
          THEN {OpenError(p), ReceiveError(p)} ELSE {})

EngineCalled == \E i \in 1..Len(log) : log[i] = "stage1"

\* C28: every engine function returns Ok on every input on which it returns,
\* whether or not its sinks succeed; no entry point returns an "engine
\* error" Err, and every Err of an entry point is a reason of its source
\* adapter, given before the engine is called
C28_EnginesAlwaysOk ==
  Running =>
    /\ step = "summarized" =>
         result = Ok(EngineSummary(Current, statuses))
    /\ step = "returned" =>
         /\ EngineCalled => result.ok
         /\ ~result.ok =>
              /\ result.value \in SourceErrors(Current, platform)
              /\ ~StartsWith(result.value, EngineErrorPrefix(Current))
              /\ statuses = <<>>

\* the redirect engine has returned Ok although neither of its sinks could
\* parse its string and build a redirect
C28_Witness ==
  /\ Running
  /\ Current = "redirect"
  /\ step = "summarized"
  /\ Len(statuses) = SinkCount("redirect")
  /\ redirects = <<>>
  /\ result.ok

(***************************************************************************)
(* Paging through a store that is not modified.                            *)
(***************************************************************************)
\* the keys of the k-th page of size L of the store at hand
PageOf(k, L) ==
  PageKeys(store, hash_builder, [offset |-> Some(k * L), limit |-> Some(L)])

SeqRange(seq) == {seq[i] : i \in 1..Len(seq)}

Injective(seq) == \A i, j \in 1..Len(seq) : seq[i] = seq[j] => i = j

\* the page numbers whose offset is a usize
PageNumbers(L) == {k \in 0..Cardinality(DOMAIN store) : k * L <= USIZE_MAX}

\* C29: for a store that is not modified between the calls and every page
\* size L >= 1, the pages get_todos(offset = k * L, limit = L), k = 0, 1, ..,
\* are pairwise disjoint and together hold exactly the entries of the store,
\* and get_todos without offset and limit returns every entry exactly once;
\* a call repeated on the unmodified store returns what it returned before.
\* get_todos borrows the store, so it is called between the other calls
C29_PagesPartitionTheStore ==
  pc = "idle" =>
    /\ \A L \in 1..(Cardinality(DOMAIN store) + 1) :
         /\ \A k \in PageNumbers(L) : Injective(PageOf(k, L))
         /\ \A k1, k2 \in PageNumbers(L) :
              k1 < k2 => SeqRange(PageOf(k1, L)) \cap SeqRange(PageOf(k2, L)) = {}
         /\ UNION {SeqRange(PageOf(k, L)) : k \in PageNumbers(L)} = DOMAIN store
    /\ LET all == PageKeys(store, hash_builder, [offset |-> None, limit |-> None])
       IN Injective(all) /\ SeqRange(all) = DOMAIN store
    /\ ret.op = "get_todos" => ret.value = get_todos(store, hash_builder, ret.arg)

\* get_todos without offset and limit has returned the three entries of a
\* store whose table order is not the order of the keys
C29_Witness ==
  /\ pc = "idle"
  /\ ret.op = "get_todos"
  /\ ret.arg = [offset |-> None, limit |-> None]
  /\ Cardinality(DOMAIN store) = 3
  /\ Len(ret.value) = 3
  /\ ret.value[1].id > ret.value[2].id

(***************************************************************************)
(* Id allocation at the top of the range of usize.                         *)
(***************************************************************************)
\* the store was built by from_hashmap from a map that holds the key usize::MAX
BuiltAtTheTop == origin = "from_hashmap" /\ USIZE_MAX \in DOMAIN store

\* add_todo takes its id and inserts its item in this step
AddTodoBegins == adds' = adds + 1

\* C30: for a store built by from_hashmap from a map whose largest key is the
\* largest usize, the construction succeeds, and an add_todo on it neither
\* takes an id that is a key of the store or was issued before, nor replaces
\* an entry the store holds
C30_TopOfRangeIsCollisionFree ==
  /\ [](BuiltAtTheTop => pc # "panicked")
  /\ [][(BuiltAtTheTop /\ AddTodoBegins) =>
          /\ id_generator \notin DOMAIN store
          /\ \A i \in 1..Len(issued) : issued[i] # id_generator
          /\ \A k \in DOMAIN store : store'[k] = store[k]]_vars

=============================================================================
